---- MODULE Spec2Model ----
(***************************************************************************)
(* Model of the Notion upsert engine of AI_API_Usage_CLI:                  *)
(*   NotionClient.find_existing_page / create_page / update_page /         *)
(*   save_usage_data (src/notion_integration.py) and its caller            *)
(*   save_to_notion (src/main.py).                                         *)
(*                                                                         *)
(* The remote store (one Notion database) is a sequence of pages in        *)
(* creation order.  A remote call either succeeds or fails; the outcome is *)
(* chosen nondeterministically at each call.  Costs are integers counted   *)
(* in units of 0.00002, so the 0.0001 tolerance of the scan is CostTol.    *)
(***************************************************************************)
EXTENDS Integers, Sequences, FiniteSets, TLC

\* ---------------------------------------------------------------- bounds
MaxBatch == 2        \* longest record list handed to save_usage_data
MaxRuns  == 2        \* save_usage_data invocations in one behaviour
MaxCands == 2        \* longest candidate list in the stand-alone scan
MaxEntries == 1      \* longest result list of a bucket and longest summary list
MaxKeywords == 2     \* longest keyword list handed to fetch_invoices
MaxExtracted == 2    \* longest invoice list one keyword pass extracts

\* ------------------------------------------------------------- constants
CostTol == 5         \* 0.0001 in units of 0.00002

NoVal  == "none"     \* Python None / empty string of an optional text field
NoCost == -1         \* Python None in a cost position
NoPage == 0          \* Python None in a page-id position
Absent == -1         \* a numeric key the entry does not hold

\* A bucket string is the sequence of its characters.
DayBucket == <<"3", "-", "0", "5">>

\* ---------------------------------------------------------- input domains
\* The records handed to save_usage_data share date, model and key alias and
\* differ in time and in usage, so that any two of them may collide; pages
\* differing in date, model and key alias are met in the stand-alone lookup.
Dates    == {"d1"}
Models   == {"m1"}
Aliases  == {"k1"}
Times    == {NoVal, "t1", "t2"}
\* requests, quantity, unit_price of a usage result; its cost is
\* quantity * unit_price, as format_for_notion defaults it: 0, 3 and 6.
Usages   == { <<1, 0, 1>>, <<2, 3, 1>>, <<4, 3, 2>> }

Abs(x) == IF x < 0 THEN -x ELSE x

\* A usage record as format_for_notion builds it.
Record(d, m, k, t, u) ==
    [date |-> d, model |-> m, auth_method |-> k, time |-> t,
     requests |-> u[1], quantity |-> u[2], unit_price |-> u[3],
     cost |-> u[2] * u[3]]

Records ==
    { Record(d, m, k, t, u) :
        d \in Dates, m \in Models, k \in Aliases, t \in Times, u \in Usages }

BatchesOf(S) == UNION { [1..n -> S] : n \in 1..MaxBatch }

\* ------------------------------------------------------------------ state
VARIABLES
    store,            \* the remote database: sequence of pages, creation order
    pc,               \* "idle" | "stn" (save_to_notion loop) | "sud" (save_usage_data loop)
    caller,           \* who called save_usage_data: "none" | "api" | "cli" (save_to_notion)
    records,          \* save_usage_data: the records argument
    idx,              \* save_usage_data: position of the next record (1-based)
    update_existing,  \* save_usage_data / save_to_notion argument
    stats,            \* save_usage_data: {"created","updated","skipped"}
    dry_run,          \* save_to_notion's argument
    groups,           \* save_to_notion: auth_method keys still to process
    totals,           \* save_to_notion: total_created / total_updated / total_skipped
    out,              \* what the last finished call returned or printed
    last,             \* what the last loop iteration of save_usage_data did
    run,              \* bookkeeping of the run: remote failures seen, resubmission
    nruns,            \* number of save_usage_data invocations so far
    cands,            \* stand-alone lookup: the pages of the database
    args,             \* stand-alone lookup: find_existing_page's arguments
    found,            \* stand-alone lookup: what find_existing_page returned
    usage_data,       \* the usage response handed to calculate_costs / format_for_notion
    pricing_map,      \* formatter.calculate_costs: its pricing_map argument
    ledger,           \* what calculate_costs returned
    attributed,       \* calculate_costs: the loop's locals for every entry it counted
    notion_data,      \* format_for_notion: its outcome, the timeframe it worked
                      \* with and the record lists it returned
    inv_pc,           \* fetch_invoices: "idle" | "loop" | "returned" | "raised"
    search_keywords,  \* fetch_invoices: the keywords, in order
    kidx,             \* fetch_invoices: position of the next keyword (1-based)
    all_invoices,     \* fetch_invoices: the merged list
    seen_invoice_ids, \* fetch_invoices: the ids merged so far
    passes,           \* what every keyword pass so far came back with
    parsed_invoices,  \* _fetch_invoices_single_keyword: whether it was called
                      \* and its list `invoices`
    validated_invoices, \* _fetch_invoices_single_keyword: what it returned
    cl_pc,            \* get_usage: "idle" | "single" (_get_usage_single is
                      \* about to send a request) | "returned" | "raised"
    usage_args,       \* the arguments of the query: number of endpoint ids,
                      \* preset, start_date, end_date
    eidx,             \* get_usage: position of the endpoint (or endpoint
                      \* list) _get_usage_single is called for (1-based)
    all_data,         \* _get_usage_single: the pages collected
    cursor,           \* _get_usage_single: its local `cursor`
    params_cursor,    \* _get_usage_single: params["cursor"], NoVal when unset
    has_more,         \* _get_usage_single: its local `has_more`
    attempt,          \* _get_usage_single: `attempt` of the retry loop
    sent,             \* every request sent so far, with its response and
                      \* the wait slept after it
    all_time_series,  \* get_usage: all_time_series of the per-endpoint calls
    all_summaries,    \* get_usage: all_summaries of the per-endpoint calls
    usage_out,        \* what the query ended in
    inv_db,           \* the remote invoice database: sequence of pages
    si_pc,            \* save_invoices: "idle" | "loop"
    inv_list,         \* save_invoices: its argument `invoices`
    si_idx,           \* save_invoices: position of the next invoice (1-based)
    si_update,        \* save_invoices: its argument update_existing
    si_stats,         \* save_invoices: stats
    si_out,           \* what the last finished save_invoices returned
    si_last,          \* what the last iteration of save_invoices did
    si_run,           \* bookkeeping of the run: remote failures, resubmission
    si_nruns          \* number of save_invoices invocations so far

findVars == <<cands, args, found>>

engineVars == <<store, pc, caller, records, idx, update_existing, dry_run, stats,
                groups, totals, out, last, run, nruns>>

invVars == <<inv_pc, search_keywords, kidx, all_invoices, seen_invoice_ids, passes>>

valVars == <<parsed_invoices, validated_invoices>>

singleVars == <<all_data, cursor, params_cursor, has_more, attempt>>

clientVars == <<cl_pc, usage_args, eidx, singleVars, sent, all_time_series,
                all_summaries, usage_out>>

sinvVars == <<inv_db, si_pc, inv_list, si_idx, si_update, si_stats, si_out,
              si_last, si_run, si_nruns>>

restVars == <<valVars, clientVars, sinvVars>>

pipeVars == <<usage_data, pricing_map, ledger, attributed, notion_data, invVars,
              restVars>>

vars == <<store, pc, caller, records, idx, update_existing, dry_run, stats, groups,
          totals, out, last, run, nruns, cands, args, found,
          usage_data, pricing_map, ledger, attributed, notion_data,
          inv_pc, search_keywords, kidx, all_invoices, seen_invoice_ids, passes,
          parsed_invoices, validated_invoices,
          cl_pc, usage_args, eidx, all_data, cursor, params_cursor, has_more, attempt,
          sent, all_time_series, all_summaries, usage_out,
          inv_db, si_pc, inv_list, si_idx, si_update, si_stats, si_out,
          si_last, si_run, si_nruns>>

ZeroStats == [created |-> 0, updated |-> 0, skipped |-> 0]

NoLast == [branch |-> "none", query |-> "none", write |-> "none",
           page |-> NoPage, needs |-> FALSE, before |-> <<>>,
           stats0 |-> ZeroStats, rec |-> <<>>, at |-> 0]

NoArgs == [date |-> NoVal, model |-> NoVal, time |-> NoVal,
           auth_method |-> NoVal, cost |-> NoCost]

NoFound == [called |-> FALSE, query |-> "none", is_tuple |-> FALSE,
            page_id |-> NoPage, needs_time_update |-> FALSE]

\* clean: no remote call of this run has failed; sound: none of any run has.
NoRun == [clean |-> TRUE, sound |-> TRUE, fromEmpty |-> FALSE, again |-> FALSE,
          first |-> ZeroStats, firstClean |-> FALSE]

\* An empty pricing map, an empty response and the ledger of no entries.
NoPricing == [m \in {} |-> 0]

\* A start or end of _meta: no value, a text that is not ISO 8601, or an
\* ISO 8601 date-time of a day and a minute of the day, without a zone,
\* with Z or with the offset +02:00.
NoStamp == [kind |-> "none", day |-> 0, minute |-> 0, zone |-> ""]

NoUsage == [meta |-> [timeframe |-> NoVal, start |-> NoStamp, end |-> NoStamp],
            time_series |-> <<>>, summary |-> <<>>]

NoNotionData == [outcome |-> "none", timeframe |-> NoVal, data |-> <<>>]

ZeroSums == [requests |-> 0, quantity |-> 0, cost |-> 0]

NoLedger == [total |-> ZeroSums,
             by_model |-> [m \in {} |-> ZeroSums],
             by_auth_method |-> [k \in {} |-> ZeroSums]]

\* ------------------------------------------------- find_existing_page
\* A page whose Time differs from the record's is taken as the duplicate.
CandidateVerdict_TimeIgnored(page, model, time, auth_method, cost) ==
    IF page.model # model THEN "next"
    ELSE IF auth_method # NoVal /\ page.key # auth_method THEN "next"
    ELSE IF cost # NoCost
            /\ (page.cost = NoCost \/ Abs(page.cost - cost) > CostTol) THEN "next"
    ELSE IF time # NoVal /\ page.time = NoVal THEN "backfill"
    ELSE "match"

\* One candidate of the scan: "match" (return page, no time update),
\* "backfill" (return page, time update needed) or "next" (keep scanning).
CandidateVerdict(page, model, time, auth_method, cost) ==
    IF page.model # model THEN "next"
    ELSE IF auth_method # NoVal /\ page.key # auth_method THEN "next"
    ELSE IF cost # NoCost
            /\ (page.cost = NoCost \/ Abs(page.cost - cost) > CostTol) THEN "next"
    ELSE IF time # NoVal
         THEN IF page.time = time THEN "match"
              ELSE IF page.time = NoVal THEN "backfill"
              ELSE "next"
         ELSE "match"

\* The scan looks for a page with the record's exact time before it settles
\* for a page without Time.
ScanPages_ExactFirst(results, model, time, auth_method, cost) ==
    LET verdict(i) == CandidateVerdict(results[i], model, time, auth_method, cost)
        exact == { i \in DOMAIN results : verdict(i) = "match" }
        fill  == { i \in DOMAIN results : verdict(i) = "backfill" }
        least(S) == CHOOSE i \in S : \A j \in S : i <= j
    IN  IF exact # {}
        THEN [page_id |-> results[least(exact)].id, needs_time_update |-> FALSE]
        ELSE IF fill # {}
        THEN [page_id |-> results[least(fill)].id, needs_time_update |-> TRUE]
        ELSE [page_id |-> NoPage, needs_time_update |-> FALSE]

\* The scan gives up after its first candidate.
ScanPages_FirstOnly(results, model, time, auth_method, cost) ==
    IF results = <<>>
    THEN [page_id |-> NoPage, needs_time_update |-> FALSE]
    ELSE LET v == CandidateVerdict(Head(results), model, time, auth_method, cost)
         IN  [page_id |-> IF v = "next" THEN NoPage ELSE Head(results).id,
              needs_time_update |-> v = "backfill"]

RECURSIVE ScanPages(_, _, _, _, _)
ScanPages(results, model, time, auth_method, cost) ==
    IF results = <<>>
    THEN [page_id |-> NoPage, needs_time_update |-> FALSE]
    ELSE LET v == CandidateVerdict(Head(results), model, time, auth_method, cost)
         IN  IF v = "match"
             THEN [page_id |-> Head(results).id, needs_time_update |-> FALSE]
             ELSE IF v = "backfill"
             THEN [page_id |-> Head(results).id, needs_time_update |-> TRUE]
             ELSE ScanPages(Tail(results), model, time, auth_method, cost)

\* The remote query: the pages whose Date equals `date`, in an order the
\* store chooses.
DateFiltered(pages, date) == SelectSeq(pages, LAMBDA p : p.date = date)

Orderings(seq) ==
    { [i \in 1..Len(seq) |-> seq[f[i]]] : f \in Permutations(1..Len(seq)) }

QueryResults(pages, date) == Orderings(DateFiltered(pages, date))

\* The query answers 200, answers another status, or raises.
QueryOutcomes == {"ok", "non200", "exception"}
\* create_page returns an id or None, update_page True or False: None and
\* False are every exception inside them, the remote call's or (create_page)
\* the parsing of a date that is not YYYY-MM-DD.
WriteOutcomes == {"ok", "fail"}

\* What find_existing_page hands back.  is_tuple = FALSE is the bare None of
\* the non-200 return, which the caller's tuple unpacking cannot take.
find_existing_page(query, results, model, time, auth_method, cost) ==
    IF query = "non200"
    THEN [is_tuple |-> FALSE, page_id |-> NoPage, needs_time_update |-> FALSE]
    ELSE IF query = "exception"
    THEN [is_tuple |-> TRUE, page_id |-> NoPage, needs_time_update |-> FALSE]
    ELSE LET f == ScanPages(results, model, time, auth_method, cost)
         IN  [is_tuple |-> TRUE, page_id |-> f.page_id,
              needs_time_update |-> f.needs_time_update]

\* ------------------------------------------------ create_page / update_page
create_page(pages, date, model, requests, quantity, cost, unit_price, api_key, time) ==
    Append(pages,
           [id |-> Len(pages) + 1, date |-> date, model |-> model,
            key |-> api_key, cost |-> cost, time |-> time,
            requests |-> requests, quantity |-> quantity,
            unit_price |-> unit_price])

\* The full update leaves Cost ($) out of the properties it writes.
update_page_KeepsCost(pages, page_id, requests, quantity, cost, unit_price, time, time_only) ==
    [i \in 1..Len(pages) |->
        IF pages[i].id # page_id THEN pages[i]
        ELSE IF time_only /\ time # NoVal
        THEN [pages[i] EXCEPT !.time = time]
        ELSE [pages[i] EXCEPT !.requests = requests, !.quantity = quantity,
                              !.unit_price = unit_price,
                              !.time = IF time # NoVal THEN time ELSE @]]

update_page(pages, page_id, requests, quantity, cost, unit_price, time, time_only) ==
    [i \in 1..Len(pages) |->
        IF pages[i].id # page_id THEN pages[i]
        ELSE IF time_only /\ time # NoVal
        THEN [pages[i] EXCEPT !.time = time]
        ELSE [pages[i] EXCEPT !.requests = requests, !.quantity = quantity,
                              !.cost = cost, !.unit_price = unit_price,
                              !.time = IF time # NoVal THEN time ELSE @]]

\* ------------------------------------------------------- save_usage_data
\* update_existing is tested before the time-only case.
SelectBranch_UpdateFirst(page_id, needs_time_update, time, update) ==
    IF page_id # NoPage
    THEN IF update THEN "full_update"
         ELSE IF needs_time_update /\ time # NoVal THEN "time_only"
         ELSE "duplicate"
    ELSE "create"

\* update_existing is not looked at: every duplicate is updated.
SelectBranch_AlwaysUpdate(page_id, needs_time_update, time, update) ==
    IF page_id # NoPage
    THEN IF needs_time_update /\ time # NoVal THEN "time_only"
         ELSE "full_update"
    ELSE "create"

\* The branch of the loop body chosen from the lookup's result:
\* "time_only", "full_update", "duplicate" or "create".
SelectBranch(page_id, needs_time_update, time, update) ==
    IF page_id # NoPage
    THEN IF needs_time_update /\ time # NoVal THEN "time_only"
         ELSE IF update THEN "full_update"
         ELSE "duplicate"
    ELSE "create"

\* The result of the remote write is not looked at.
WriteResult_Unchecked(write, pages, written, counter) ==
    [store |-> IF write = "ok" THEN written ELSE pages, counter |-> counter]

\* The if/else on a remote write's result: a successful call counts under
\* `counter` and leaves `written`; a failed one counts as skipped and leaves
\* the store as it was.
WriteResult(write, pages, written, counter) ==
    IF write = "ok"
    THEN [store |-> written, counter |-> counter]
    ELSE [store |-> pages, counter |-> "skipped"]

\* Only the date is tested.
Incomplete_DateOnly(r) == r.date = NoVal

\* The test `if not date or not model` at the head of the loop body.
Incomplete(r) == r.date = NoVal \/ r.model = NoVal

\* One iteration of the loop over records: the lookup, the branch taken and
\* the remote write.  counter is the stats key incremented, or "raise" when
\* the iteration ends in an uncaught exception.
save_usage_data_iter(pages, r, update, query, write, results) ==
    IF Incomplete(r)
    THEN [store |-> pages, counter |-> "skipped", branch |-> "invalid",
          page |-> NoPage, needs |-> FALSE]
    ELSE
    LET f  == find_existing_page(query, results, r.model, r.time,
                                 r.auth_method, r.cost)
        br == SelectBranch(f.page_id, f.needs_time_update, r.time, update)
        w  == IF br = "time_only"
              THEN WriteResult(write, pages,
                       update_page(pages, f.page_id, r.requests, r.quantity,
                                   r.cost, r.unit_price, r.time, TRUE),
                       "updated")
              ELSE IF br = "full_update"
              THEN WriteResult(write, pages,
                       update_page(pages, f.page_id, r.requests, r.quantity,
                                   r.cost, r.unit_price, r.time, FALSE),
                       "updated")
              ELSE IF br = "create"
              THEN WriteResult(write, pages,
                       create_page(pages, r.date, r.model, r.requests,
                                   r.quantity, r.cost, r.unit_price,
                                   r.auth_method, r.time),
                       "created")
              ELSE [store |-> pages, counter |-> "skipped"]
    IN  IF ~f.is_tuple
        THEN [store |-> pages, counter |-> "raise", branch |-> "unpack",
              page |-> NoPage, needs |-> FALSE]
        ELSE [store |-> w.store, counter |-> w.counter, branch |-> br,
              page |-> f.page_id, needs |-> f.needs_time_update]

\* Which remote calls an iteration makes, given its branch.
Queried(branch) == branch \notin {"none", "invalid"}
Wrote(branch)   == branch \in {"time_only", "full_update", "create"}

Bump(s, counter) == [s EXCEPT ![counter] = @ + 1]

\* No query has been made.
NoQuery == [n |-> 0, preset |-> NoVal, start_date |-> Absent, end_date |-> Absent]

NoResult == [wrapped |-> FALSE, time_series |-> <<>>, summary |-> <<>>,
             items |-> <<>>]

NoUsageOut == [kind |-> "none", by |-> "none", result |-> NoResult]

\* No iteration of save_invoices has run.
NoSiLast == [branch |-> "none", query |-> "none", write |-> "none",
             page |-> NoPage, before |-> <<>>, stats0 |-> ZeroStats,
             counter |-> "none", at |-> 0]

TypeOK ==
    /\ pc \in {"idle", "stn", "sud"}
    /\ caller \in {"none", "api", "cli"}
    /\ idx \in 1..(MaxBatch + 1)
    /\ update_existing \in BOOLEAN
    /\ nruns \in 0..MaxRuns
    /\ Len(store) <= MaxBatch * MaxRuns

InitEngine ==
    /\ store = <<>>
    /\ pc = "idle"
    /\ caller = "none"
    /\ records = <<>>
    /\ idx = 1
    /\ update_existing = FALSE
    /\ dry_run = FALSE
    /\ stats = ZeroStats
    /\ groups = <<>>
    /\ totals = ZeroStats
    /\ out = [kind |-> "none", stats |-> ZeroStats]
    /\ last = NoLast
    /\ run = NoRun
    /\ nruns = 0

\* No usage response has been processed.
InitPipe ==
    /\ usage_data = NoUsage
    /\ pricing_map = NoPricing
    /\ ledger = NoLedger
    /\ attributed = [impl |-> "none", entries |-> <<>>]
    /\ notion_data = NoNotionData
    /\ inv_pc = "idle"
    /\ search_keywords = <<>>
    /\ kidx = 1
    /\ all_invoices = <<>>
    /\ seen_invoice_ids = {}
    /\ passes = <<>>
    /\ parsed_invoices = [called |-> FALSE, list |-> <<>>]
    /\ validated_invoices = <<>>
    /\ cl_pc = "idle"
    /\ usage_args = NoQuery
    /\ eidx = 1
    /\ all_data = <<>>
    /\ cursor = NoVal
    /\ params_cursor = NoVal
    /\ has_more = TRUE
    /\ attempt = 0
    /\ sent = <<>>
    /\ all_time_series = <<>>
    /\ all_summaries = <<>>
    /\ usage_out = NoUsageOut
    /\ inv_db = <<>>
    /\ si_pc = "idle"
    /\ inv_list = <<>>
    /\ si_idx = 1
    /\ si_update = FALSE
    /\ si_stats = ZeroStats
    /\ si_out = [kind |-> "none", stats |-> ZeroStats]
    /\ si_last = NoSiLast
    /\ si_run = NoRun
    /\ si_nruns = 0

Init ==
    /\ InitEngine
    /\ InitPipe
    /\ cands = <<>>
    /\ args = NoArgs
    /\ found = NoFound

\* save_usage_data(database_id, records, update_existing) called directly.
\* An empty list returns the zero stats at once.
SaveUsageData ==
    /\ pc = "idle"
    /\ nruns < MaxRuns
    /\ \E recs \in BatchesOf(Records) \cup {<<>>}, ue \in BOOLEAN :
        /\ caller' = "api"
        /\ records' = recs
        /\ update_existing' = ue
        /\ idx' = 1
        /\ stats' = ZeroStats
        /\ last' = NoLast
        /\ nruns' = nruns + 1
        /\ run' = [NoRun EXCEPT !.fromEmpty = (store = <<>>), !.sound = run.sound]
        /\ IF recs = <<>>
           THEN pc' = "idle" /\ out' = [kind |-> "stats", stats |-> ZeroStats]
           ELSE pc' = "sud" /\ out' = [kind |-> "none", stats |-> ZeroStats]
    /\ UNCHANGED <<store, dry_run, groups, totals>>
    /\ UNCHANGED <<findVars, pipeVars>>

\* The caller hands the same records, with the same update_existing, to
\* save_usage_data a second time.
Resubmit ==
    /\ pc = "idle"
    /\ caller = "api"
    /\ out.kind = "stats"
    /\ records # <<>>
    /\ ~run.again
    /\ nruns < MaxRuns
    /\ pc' = "sud"
    /\ idx' = 1
    /\ stats' = ZeroStats
    /\ last' = NoLast
    /\ nruns' = nruns + 1
    /\ out' = [kind |-> "none", stats |-> ZeroStats]
    /\ run' = [clean |-> TRUE, sound |-> run.sound, fromEmpty |-> FALSE,
               again |-> TRUE,
               first |-> out.stats,
               firstClean |-> run.clean /\ run.fromEmpty]
    /\ UNCHANGED <<store, caller, records, update_existing, dry_run, groups, totals>>
    /\ UNCHANGED <<findVars, pipeVars>>

\* One record of the loop.  A TypeError from the tuple unpacking leaves
\* save_usage_data; save_to_notion's except clause prints it.
ProcessRecord ==
    /\ pc = "sud"
    /\ idx <= Len(records)
    /\ \E query \in QueryOutcomes, write \in WriteOutcomes,
          results \in QueryResults(store, records[idx].date) :
        LET it == save_usage_data_iter(store, records[idx], update_existing,
                                       query, write, results)
        IN  /\ store' = it.store
            /\ last' = [branch |-> it.branch,
                        query |-> IF Queried(it.branch) THEN query ELSE "none",
                        write |-> IF Wrote(it.branch) THEN write ELSE "none",
                        page |-> it.page, needs |-> it.needs,
                        before |-> store, stats0 |-> stats,
                        rec |-> records[idx], at |-> idx]
            /\ LET ok == /\ (Queried(it.branch) => query = "ok")
                         /\ (Wrote(it.branch) => write = "ok")
               IN  run' = [run EXCEPT !.clean = @ /\ ok, !.sound = @ /\ ok]
            /\ IF it.counter = "raise"
               THEN /\ pc' = "idle"
                    /\ out' = [kind |-> IF caller = "cli" THEN "error" ELSE "raised",
                               stats |-> ZeroStats]
                    /\ groups' = <<>>
                    /\ UNCHANGED <<stats, idx>>
               ELSE /\ stats' = Bump(stats, it.counter)
                    /\ idx' = idx + 1
                    /\ UNCHANGED <<pc, out, groups>>
    /\ UNCHANGED <<caller, records, update_existing, dry_run, totals, nruns>>
    /\ UNCHANGED <<findVars, pipeVars>>

\* The loop is over: save_usage_data returns stats.  Called from
\* save_to_notion, the caller adds them to its totals and goes on with the
\* next auth_method.
SudReturn ==
    /\ pc = "sud"
    /\ idx > Len(records)
    /\ IF caller = "api"
       THEN /\ pc' = "idle"
            /\ out' = [kind |-> "stats", stats |-> stats]
            /\ UNCHANGED <<totals, groups>>
       ELSE /\ pc' = "stn"
            /\ totals' = [k \in DOMAIN totals |-> totals[k] + stats[k]]
            /\ groups' = Tail(groups)
            /\ UNCHANGED out
    /\ UNCHANGED <<store, caller, records, idx, update_existing, dry_run, stats, last,
                   run, nruns>>
    /\ UNCHANGED <<findVars, pipeVars>>

\* ----------------------------------------------------------- save_to_notion
\* The key order of notion_data_by_auth.
GroupOrders ==
    { g \in UNION { [1..n -> Aliases] : n \in 0..Cardinality(Aliases) } :
        \A i, j \in DOMAIN g : i # j => g[i] # g[j] }

DbOutcomes == {"no_id", "not_found", "ok"}

\* What usage_tracker.format_for_notion(usage_data) may hand to
\* save_to_notion under the key order gs: a record list per auth_method.
NotionData(gs) ==
    { [i \in DOMAIN gs |-> [auth_method |-> gs[i], records |-> b[i]]] :
        b \in { c \in [DOMAIN gs -> BatchesOf(Records)] :
                  \A i \in DOMAIN gs : \A j \in DOMAIN c[i] :
                      c[i][j].auth_method = gs[i] } }

\* The dry-run printout: one line per auth_method with its record count.
RecordCounts(nd) ==
    [i \in DOMAIN nd |-> [auth_method |-> nd[i].auth_method,
                          count |-> Len(nd[i].records)]]

\* dry_run is not looked at: the loop is always entered.
StnMode_DryRunIgnored(has_key, gs, dry) ==
    IF ~has_key THEN "no_key"
    ELSE IF gs = <<>> THEN "no_data"
    ELSE "loop"

\* The way save_to_notion takes before its loop: the early returns for a
\* missing API key, for no data and for dry_run, tested in this order.
StnMode(has_key, gs, dry) ==
    IF ~has_key THEN "no_key"
    ELSE IF gs = <<>> THEN "no_data"
    ELSE IF dry THEN "dry_run"
    ELSE "loop"

\* save_to_notion(usage_data, key, dry_run, verbose, update_existing) up to
\* the loop over auth methods.  gs is the key order of notion_data_by_auth;
\* its record lists are read here by the dry-run printout only, the loop
\* reads each list when it reaches its key.
SaveToNotion ==
    /\ pc = "idle"
    /\ \E has_key \in BOOLEAN, gs \in GroupOrders, dry \in BOOLEAN, ue \in BOOLEAN :
        LET mode == StnMode(has_key, gs, dry)
        IN  /\ nruns + Len(gs) <= MaxRuns
            /\ caller' = "cli"
            /\ dry_run' = dry
            /\ update_existing' = ue
            /\ totals' = ZeroStats
            /\ last' = IF mode = "loop" THEN NoLast
                        ELSE [NoLast EXCEPT !.before = store]
            /\ groups' = IF mode = "loop" THEN gs ELSE <<>>
            /\ pc' = IF mode = "loop" THEN "stn" ELSE "idle"
            /\ CASE mode = "loop" -> out' = [kind |-> "none", stats |-> ZeroStats]
                 [] mode = "dry_run" ->
                        \E nd \in NotionData(gs) :
                            out' = [kind |-> "dry_run", stats |-> ZeroStats,
                                    counts |-> RecordCounts(nd)]
                 [] OTHER -> out' = [kind |-> mode, stats |-> ZeroStats]
    /\ UNCHANGED <<store, records, idx, stats, run, nruns>>
    /\ UNCHANGED <<findVars, pipeVars>>

\* One auth_method of the loop: resolve its database; without a database id
\* or with a database that cannot be retrieved its records are all counted
\* as skipped, otherwise they go to save_usage_data.  recs is the value of
\* notion_data_by_auth under that key.
StnGroup ==
    /\ pc = "stn"
    /\ groups # <<>>
    /\ \E recs \in BatchesOf({r \in Records : r.auth_method = Head(groups)}),
          db \in DbOutcomes :
        IF db # "ok"
        THEN /\ totals' = [totals EXCEPT !.skipped = @ + Len(recs)]
             /\ groups' = Tail(groups)
             /\ UNCHANGED <<pc, records, idx, stats, last, run, nruns>>
        ELSE /\ nruns < MaxRuns
             /\ pc' = "sud"
             /\ records' = recs
             /\ idx' = 1
             /\ stats' = ZeroStats
             /\ last' = NoLast
             /\ run' = [NoRun EXCEPT !.fromEmpty = (store = <<>>), !.sound = run.sound]
             /\ nruns' = nruns + 1
             /\ UNCHANGED <<totals, groups>>
    /\ UNCHANGED <<store, caller, update_existing, dry_run, out>>
    /\ UNCHANGED <<findVars, pipeVars>>

\* After the loop: the aggregate counters are printed.
StnReport ==
    /\ pc = "stn"
    /\ groups = <<>>
    /\ pc' = "idle"
    /\ out' = [kind |-> "counters", stats |-> totals]
    /\ UNCHANGED <<store, caller, records, idx, update_existing, dry_run, stats, groups,
                   totals, last, run, nruns>>
    /\ UNCHANGED <<findVars, pipeVars>>

\* save_usage_data driven directly by its caller.
Next ==
    \/ SaveUsageData
    \/ Resubmit
    \/ ProcessRecord
    \/ SudReturn

Spec == Init /\ [][Next]_vars

\* Records that lack a date or a model.
IncompleteRecords ==
    { Record(NoVal, "m1", "k1", NoVal, <<2, 3, 1>>),
      Record("d1", NoVal, "k1", "t1", <<2, 3, 1>>) }

\* save_usage_data(database_id, records, update_existing) called with a
\* batch that may hold incomplete records.
SaveAnyUsageData ==
    /\ pc = "idle"
    /\ nruns < MaxRuns
    /\ \E recs \in BatchesOf(Records \cup IncompleteRecords), ue \in BOOLEAN :
        /\ records' = recs
        /\ update_existing' = ue
    /\ caller' = "api"
    /\ idx' = 1
    /\ stats' = ZeroStats
    /\ last' = NoLast
    /\ nruns' = nruns + 1
    /\ run' = [NoRun EXCEPT !.fromEmpty = (store = <<>>), !.sound = run.sound]
    /\ pc' = "sud"
    /\ out' = [kind |-> "none", stats |-> ZeroStats]
    /\ UNCHANGED <<store, dry_run, groups, totals>>
    /\ UNCHANGED <<findVars, pipeVars>>

\* save_usage_data on batches with incomplete records.
NextBatch ==
    \/ SaveAnyUsageData
    \/ ProcessRecord
    \/ SudReturn

SpecBatch == Init /\ [][NextBatch]_vars

\* save_usage_data driven by save_to_notion.
NextNotion ==
    \/ SaveToNotion
    \/ StnGroup
    \/ ProcessRecord
    \/ SudReturn
    \/ StnReport

SpecNotion == Init /\ [][NextNotion]_vars

\* ------------------------------------------- find_existing_page on its own
\* The lookup applied to a database of up to MaxCands pages.  The record
\* looked up has date d1 and model m1; the pages vary in every compared
\* property, so each comparison of the scan passes for some and fails for
\* others.
FindDates  == {"d1", "d2"}
FindModels == {"m1", "m2"}
FindKeys   == {NoVal, "k1"}
FindCosts  == {NoCost, 0, 3, 6}
FindTimes  == {NoVal, "t1", "t2"}

FindPages ==
    [date : FindDates, model : FindModels, key : FindKeys, cost : FindCosts,
     time : FindTimes]

FindArgs ==
    [date : {"d1"}, model : {"m1"}, time : {NoVal, "t1"},
     auth_method : {NoVal, "k1"}, cost : {NoCost, 0}]

\* Page number i of the database, with the id the store gave it.
Stored(p, i) ==
    [id |-> i, date |-> p.date, model |-> p.model, key |-> p.key,
     cost |-> p.cost, time |-> p.time, requests |-> 0, quantity |-> 0,
     unit_price |-> 0]

InitFind ==
    /\ InitEngine
    /\ InitPipe
    /\ \E n \in 0..MaxCands : \E ps \in [1..n -> FindPages] :
          cands = [i \in 1..n |-> Stored(ps[i], i)]
    /\ args \in FindArgs
    /\ found = NoFound

\* find_existing_page(database_id, date, model, time, auth_method, cost):
\* the query by date, then the scan in the order the store returned.
FindExistingPage ==
    /\ ~found.called
    /\ \E query \in QueryOutcomes :
        LET f == find_existing_page(query, DateFiltered(cands, args.date),
                                    args.model, args.time, args.auth_method,
                                    args.cost)
        IN  found' = [called |-> TRUE, query |-> query, is_tuple |-> f.is_tuple,
                      page_id |-> f.page_id,
                      needs_time_update |-> f.needs_time_update]
    /\ UNCHANGED <<cands, args>>
    /\ UNCHANGED <<engineVars, pipeVars>>

NextFind == FindExistingPage

SpecFind == InitFind /\ [][NextFind]_vars

\* ------------------------------------------------------- calculate_costs
\* Amounts are integers in units of 0.01.  Absent is a key the dict does not
\* hold; Get is dict.get(key, default).
Get(v, default) == IF v = Absent THEN default ELSE v

Endpoints == {"m1", "m2"}

\* The auth_method field: no key, a string, or an object with or without a
\* key_alias.
NoAuth == [type |-> "none", alias |-> NoVal]
AuthMethods == {NoAuth, [type |-> "str", alias |-> "k1"],
                [type |-> "dict", alias |-> "k2"],
                [type |-> "dict", alias |-> NoVal]}

\* A time_series result {endpoint_id, quantity, cost?, unit_price?,
\* requests?, auth_method?}, or one that names its quantity units.
TsResults ==
    { e \in [endpoint_id : {NoVal} \cup Endpoints, quantity : {Absent, 100},
             units : {Absent, 5}, cost : {Absent, 0, 7},
             unit_price : {Absent, 0, 1}, requests : {Absent, 2},
             count : {Absent}, auth_method : AuthMethods] :
        ~(e.quantity # Absent /\ e.units # Absent) }

\* A summary item, with the synonyms quantity | units and requests | count.
SummaryItems ==
    { e \in [endpoint_id : {NoVal, "m1"}, quantity : {Absent, 100},
             units : {Absent, 5}, cost : {Absent, 0, 7},
             unit_price : {Absent, 1}, requests : {Absent, 2},
             count : {Absent, 4}, auth_method : AuthMethods] :
        /\ ~(e.quantity # Absent /\ e.units # Absent)
        /\ ~(e.requests # Absent /\ e.count # Absent) }

\* The pricing maps handed to formatter.calculate_costs.
PricingMaps == {NoPricing, [m \in {"m1"} |-> 3]}

SeqsUpTo(S, n) == UNION { [1..k -> S] : k \in 0..n }

\* The usage responses: one bucket of up to MaxEntries results, or no
\* time_series, and up to MaxEntries summary items.
CostResponses ==
    { [meta |-> NoUsage.meta,
       time_series |-> IF rs = <<>> THEN <<>>
                       ELSE << [bucket |-> DayBucket, results |-> rs] >>,
       summary |-> items] :
        rs \in SeqsUpTo(TsResults, MaxEntries),
        items \in SeqsUpTo(SummaryItems, MaxEntries) }

\* key_alias of an auth_method value that is truthy.
KeyAlias(auth_method) ==
    IF auth_method.type = "str" THEN auth_method.alias
    ELSE IF auth_method.type = "dict"
         THEN IF auth_method.alias = NoVal THEN "Unknown" ELSE auth_method.alias
         ELSE "Unknown"

\* parse_usage_data: the auth_methods it prepares, a zero row for every
\* summary item that holds an auth_method key.
RECURSIVE ParsedAuthMethods(_, _)
ParsedAuthMethods(summary, acc) ==
    IF summary = <<>> THEN acc
    ELSE LET item == Head(summary)
             k == KeyAlias(item.auth_method)
         IN  ParsedAuthMethods(Tail(summary),
                 IF item.auth_method.type # "none" /\ k \notin DOMAIN acc
                 THEN acc @@ (k :> ZeroSums) ELSE acc)

\* All results of all buckets, in the order the loops visit them.
RECURSIVE AllResults(_)
AllResults(time_series) ==
    IF time_series = <<>> THEN <<>>
    ELSE Head(time_series).results \o AllResults(Tail(time_series))

\* usage_tracker.calculate_costs, time_series loop: the locals of a result.
TrackerTsLocals(result) ==
    LET quantity == Get(result.quantity, 0)
        unit_price == Get(result.unit_price, 0)
        cost == Get(result.cost, IF unit_price # 0 THEN quantity * unit_price ELSE 0)
    IN  [requests |-> Get(result.requests, quantity), quantity |-> quantity,
         cost |-> cost, unit_price |-> unit_price]

\* The request count is left at 0 when the item has none.
TrackerSummaryLocals_NoRequests(item) ==
    LET quantity == Get(item.quantity, Get(item.units, 0))
        cost0 == Get(item.cost, 0)
        unit_price == Get(item.unit_price, 0)
    IN  [requests |-> Get(item.requests, Get(item.count, 0)),
         quantity |-> quantity,
         cost |-> IF cost0 = 0
                  THEN (IF unit_price # 0 THEN quantity * unit_price ELSE 0)
                  ELSE cost0,
         unit_price |-> unit_price]

\* The cost is always quantity * unit_price, whatever the item's cost.
TrackerSummaryLocals_Recomputed(item) ==
    LET quantity == Get(item.quantity, Get(item.units, 0))
        unit_price == Get(item.unit_price, 0)
    IN  [requests |-> Get(item.requests, Get(item.count, quantity)),
         quantity |-> quantity,
         cost |-> quantity * unit_price,
         unit_price |-> unit_price]

\* usage_tracker.calculate_costs, summary loop: the locals of an item.
TrackerSummaryLocals(item) ==
    LET quantity == Get(item.quantity, Get(item.units, 0))
        cost0 == Get(item.cost, 0)
        unit_price == Get(item.unit_price, 0)
    IN  [requests |-> Get(item.requests, Get(item.count, quantity)),
         quantity |-> quantity,
         cost |-> IF cost0 = 0
                  THEN (IF unit_price # 0 THEN quantity * unit_price ELSE 0)
                  ELSE cost0,
         unit_price |-> unit_price]

\* pricing_map.get(endpoint_id, default)
PriceOf(pm, endpoint_id, default) ==
    IF endpoint_id \in DOMAIN pm THEN pm[endpoint_id] ELSE default

\* formatter.calculate_costs, time_series loop.
FormatterTsLocals(result, pm) ==
    LET quantity == Get(result.quantity, 0)
        unit_price == IF result.unit_price # Absent /\ result.unit_price # 0
                      THEN result.unit_price
                      ELSE PriceOf(pm, result.endpoint_id, 0)
    IN  [requests |-> Get(result.requests, quantity), quantity |-> quantity,
         cost |-> Get(result.cost, quantity * unit_price),
         unit_price |-> unit_price]

\* formatter.calculate_costs, summary loop: the pricing map is asked first
\* and the item's unit_price is its default.
FormatterSummaryLocals(item, pm) ==
    LET quantity == Get(item.quantity, Get(item.units, 0))
        cost0 == Get(item.cost, 0)
        unit_price == PriceOf(pm, item.endpoint_id, Get(item.unit_price, 0))
    IN  [requests |-> Get(item.requests, Get(item.count, quantity)),
         quantity |-> quantity,
         cost |-> IF cost0 = 0 THEN quantity * unit_price ELSE cost0,
         unit_price |-> unit_price]

\* The entries the two loops count, in order, with their locals: an entry
\* without endpoint_id is passed over.
Counted(ud, impl, pm) ==
    LET ts == AllResults(ud.time_series)
        a == [i \in DOMAIN ts |->
                [shape |-> "time_series", entry |-> ts[i],
                 locals |-> IF impl = "formatter" THEN FormatterTsLocals(ts[i], pm)
                            ELSE TrackerTsLocals(ts[i])]]
        b == [i \in DOMAIN ud.summary |->
                [shape |-> "summary", entry |-> ud.summary[i],
                 locals |-> IF impl = "formatter"
                            THEN FormatterSummaryLocals(ud.summary[i], pm)
                            ELSE TrackerSummaryLocals(ud.summary[i])]]
    IN  SelectSeq(a \o b, LAMBDA c : c.entry.endpoint_id # NoVal)

AddSums(row, l) ==
    [row EXCEPT !.requests = @ + l.requests, !.quantity = @ + l.quantity,
                !.cost = @ + l.cost]

\* total is not added to when the endpoint_id was seen before.
Accumulate_TotalOnce(L, c) ==
    LET m == c.entry.endpoint_id
        l == c.locals
        row == IF m \in DOMAIN L.by_model THEN L.by_model[m]
               ELSE [requests |-> 0, quantity |-> 0, cost |-> 0,
                     unit_price |-> l.unit_price]
    IN  [total |-> IF m \in DOMAIN L.by_model THEN L.total ELSE AddSums(L.total, l),
         by_model |-> (m :> AddSums(row, l)) @@ L.by_model,
         by_auth_method |-> L.by_auth_method]

\* One counted entry added to model_stats, to auth_methods when it has an
\* auth_method, and to the totals.
Accumulate(L, c) ==
    LET m == c.entry.endpoint_id
        l == c.locals
        row == IF m \in DOMAIN L.by_model THEN L.by_model[m]
               ELSE [requests |-> 0, quantity |-> 0, cost |-> 0,
                     unit_price |-> l.unit_price]
        k == KeyAlias(c.entry.auth_method)
        arow == IF k \in DOMAIN L.by_auth_method THEN L.by_auth_method[k]
                ELSE ZeroSums
    IN  [total |-> AddSums(L.total, l),
         by_model |-> (m :> AddSums(row, l)) @@ L.by_model,
         by_auth_method |->
             IF c.entry.auth_method.type # "none"
             THEN (k :> AddSums(arow, l)) @@ L.by_auth_method
             ELSE L.by_auth_method]

RECURSIVE FoldCounted(_, _)
FoldCounted(L, cs) ==
    IF cs = <<>> THEN L ELSE FoldCounted(Accumulate(L, Head(cs)), Tail(cs))

\* calculate_costs(usage_data) of usage_tracker (impl = "usage_tracker") and
\* calculate_costs(usage_data, pricing_map) of formatter (impl = "formatter").
calculate_costs(ud, impl, pm) ==
    FoldCounted([total |-> ZeroSums,
                 by_model |-> [m \in {} |-> ZeroSums],
                 by_auth_method |-> ParsedAuthMethods(ud.summary, [k \in {} |-> ZeroSums])],
                Counted(ud, impl, pm))

\* One response is given to one of the two calculators.
CalculateCosts ==
    /\ attributed.impl = "none"
    /\ \E ud \in CostResponses :
        /\ usage_data' = ud
        /\ pricing_map' = NoPricing
        /\ ledger' = calculate_costs(ud, "usage_tracker", NoPricing)
        /\ attributed' = [impl |-> "usage_tracker",
                          entries |-> Counted(ud, "usage_tracker", NoPricing)]
    /\ UNCHANGED <<engineVars, findVars, notion_data, invVars, restVars>>

FormatterCalculateCosts ==
    /\ attributed.impl = "none"
    /\ \E ud \in CostResponses, pm \in PricingMaps :
        /\ usage_data' = ud
        /\ pricing_map' = pm
        /\ ledger' = calculate_costs(ud, "formatter", pm)
        /\ attributed' = [impl |-> "formatter",
                          entries |-> Counted(ud, "formatter", pm)]
    /\ UNCHANGED <<engineVars, findVars, notion_data, invVars, restVars>>

NextCosts ==
    \/ CalculateCosts
    \/ FormatterCalculateCosts

SpecCosts == Init /\ [][NextCosts]_vars

\* ----------------------------------------------------- format_for_notion
BadStamp == [kind |-> "bad", day |-> 0, minute |-> 0, zone |-> ""]

IsoStamp(d, m, z) == [kind |-> "iso", day |-> d, minute |-> m, zone |-> z]

Zones == {"", "Z", "+02:00"}

StartStamps == {NoStamp, BadStamp} \cup { IsoStamp(0, 0, z) : z \in Zones }

EndStamps ==
    {NoStamp, BadStamp}
        \cup { IsoStamp(dm[1], dm[2], z) :
                 dm \in { <<0, 0>>, <<0, 120>>, <<0, 121>>, <<2, 0>>, <<2, 1>>,
                          <<3, 0>> },
                 z \in Zones }

\* datetime.fromisoformat(text.replace('Z', '+00:00')): whether the result
\* carries a zone, and its minutes on the UTC line (for a naive value, on
\* its own line).
Aware(stamp) == stamp.zone # ""

OffsetMinutes(zone) == IF zone = "+02:00" THEN 120 ELSE 0

Instant(stamp) == stamp.day * 1440 + stamp.minute - OffsetMinutes(stamp.zone)

TwoHours == 120
TwoDays == 2880

\* The bounds are exclusive: exactly two hours is hour, exactly two days day.
InferTimeframe_Exclusive(meta) ==
    IF meta.timeframe # NoVal THEN meta.timeframe
    ELSE IF meta.start.kind = "none" \/ meta.end.kind = "none" THEN "day"
    ELSE IF meta.start.kind = "bad" \/ meta.end.kind = "bad" THEN "day"
    ELSE IF Aware(meta.start) # Aware(meta.end) THEN "TypeError"
    ELSE LET duration == Instant(meta.end) - Instant(meta.start)
         IN  IF duration < TwoHours THEN "minute"
             ELSE IF duration < TwoDays THEN "hour"
             ELSE "day"

\* The timeframe format_for_notion works with: the one of _meta, or the one
\* inferred from end - start; day when start or end is missing or does not
\* parse.  Subtracting a naive and an aware datetime raises TypeError, which
\* the except clause (ValueError, AttributeError) lets through.
InferTimeframe(meta) ==
    IF meta.timeframe # NoVal THEN meta.timeframe
    ELSE IF meta.start.kind = "none" \/ meta.end.kind = "none" THEN "day"
    ELSE IF meta.start.kind = "bad" \/ meta.end.kind = "bad" THEN "day"
    ELSE IF Aware(meta.start) # Aware(meta.end) THEN "TypeError"
    ELSE LET duration == Instant(meta.end) - Instant(meta.start)
         IN  IF duration <= TwoHours THEN "minute"
             ELSE IF duration <= TwoDays THEN "hour"
             ELSE "day"

\* Strings as sequences of characters: ch in s, s.split(ch)[0],
\* s.split(ch)[1] and s.rsplit(ch, 1).
Contains(s, ch) == \E i \in DOMAIN s : s[i] = ch

FirstIndex(s, ch) == CHOOSE i \in DOMAIN s : s[i] = ch /\ \A j \in 1..(i - 1) : s[j] # ch

LastIndex(s, ch) == CHOOSE i \in DOMAIN s : s[i] = ch /\ \A j \in (i + 1)..Len(s) : s[j] # ch

SplitFirst(s, ch) ==
    IF Contains(s, ch) THEN SubSeq(s, 1, FirstIndex(s, ch) - 1) ELSE s

SplitSecond(s, ch) ==
    LET rest == SubSeq(s, FirstIndex(s, ch) + 1, Len(s))
    IN  SplitFirst(rest, ch)

RSplitHead(s, ch) == SubSeq(s, 1, LastIndex(s, ch) - 1)

RSplitTail(s, ch) == SubSeq(s, LastIndex(s, ch) + 1, Len(s))

\* The buckets: 3-05T14:30Z, 3-05T14:30-05:00, 3-05T14:30+09:00,
\* 3-05T14:30, 3-05T14:30-0500, 3-05T and 3-05.
Buckets ==
    { DayBucket \o <<"T">> \o t :
        t \in { <<"1", "4", ":", "3", "0", "Z">>,
                <<"1", "4", ":", "3", "0", "-", "0", "5", ":", "0", "0">>,
                <<"1", "4", ":", "3", "0", "+", "0", "9", ":", "0", "0">>,
                <<"1", "4", ":", "3", "0">>,
                <<"1", "4", ":", "3", "0", "-", "0", "5", "0", "0">>,
                <<>> } }
        \cup {DayBucket}

\* time_str of a bucket: the part after T without its zone suffix when the
\* timeframe asks for a time, else None (the empty sequence here: the
\* record gets a time only from a time_str that is not empty).
BucketTime(bucket, include_time) ==
    IF Contains(bucket, "T") /\ include_time
    THEN LET time_part == SplitSecond(bucket, "T")
             plain == IF Contains(time_part, "Z") THEN SplitFirst(time_part, "Z")
                      ELSE time_part
         IN  IF Contains(time_part, "+") THEN SplitFirst(time_part, "+")
             ELSE IF Contains(time_part, "-")
                  THEN IF Contains(RSplitTail(time_part, "-"), ":")
                       THEN RSplitHead(time_part, "-")
                       ELSE plain
                  ELSE plain
    ELSE <<>>

BucketDate(bucket) == SplitFirst(bucket, "T")

\* The record of one result of a bucket.
NotionRecord(bucket, result, include_time) ==
    LET quantity == Get(result.quantity, 0)
        unit_price == Get(result.unit_price, 0)
        time_str == BucketTime(bucket, include_time)
    IN  [date |-> BucketDate(bucket), model |-> result.endpoint_id,
         requests |-> Get(result.requests, quantity), quantity |-> quantity,
         cost |-> Get(result.cost, quantity * unit_price),
         unit_price |-> unit_price,
         auth_method |-> IF result.auth_method.type # "none"
                         THEN KeyAlias(result.auth_method) ELSE "Unknown",
         has_time |-> time_str # <<>>, time |-> time_str]

\* notion_data_by_auth after one more record: appended to the list of its
\* auth_method, a new key going last.
AppendRecord(nd, r) ==
    IF \E i \in DOMAIN nd : nd[i].auth_method = r.auth_method
    THEN [i \in DOMAIN nd |->
             IF nd[i].auth_method = r.auth_method
             THEN [nd[i] EXCEPT !.records = Append(@, r)] ELSE nd[i]]
    ELSE Append(nd, [auth_method |-> r.auth_method, records |-> <<r>>])

RECURSIVE FormatResults(_, _, _, _)
FormatResults(nd, bucket, results, include_time) ==
    IF results = <<>> THEN nd
    ELSE FormatResults(
             IF Head(results).endpoint_id = NoVal THEN nd
             ELSE AppendRecord(nd, NotionRecord(bucket, Head(results), include_time)),
             bucket, Tail(results), include_time)

RECURSIVE FormatBuckets(_, _, _)
FormatBuckets(nd, time_series, include_time) ==
    IF time_series = <<>> THEN nd
    ELSE FormatBuckets(FormatResults(nd, Head(time_series).bucket,
                                     Head(time_series).results, include_time),
                       Tail(time_series), include_time)

\* usage_tracker.format_for_notion(usage_data)
format_for_notion(ud) ==
    LET timeframe == InferTimeframe(ud.meta)
    IN  IF timeframe = "TypeError"
        THEN [outcome |-> "raised", timeframe |-> NoVal, data |-> <<>>]
        ELSE [outcome |-> "returned", timeframe |-> timeframe,
              data |-> FormatBuckets(<<>>, ud.time_series,
                                     timeframe \in {"minute", "hour"})]

Timeframes == {"minute", "hour", "day", "month"}

\* _meta with a timeframe, or without one and with a start and an end.
Metas ==
    { [timeframe |-> tf, start |-> IsoStamp(0, 0, "Z"), end |-> IsoStamp(3, 0, "Z")] :
        tf \in Timeframes }
        \cup { [timeframe |-> NoVal, start |-> a, end |-> b] :
                 a \in StartStamps, b \in EndStamps }

\* The results of the responses given to format_for_notion.
NotionResults ==
    { e \in TsResults : e.units = Absent /\ e.requests = Absent /\ e.cost # 0
                        /\ e.unit_price # 0 }

NotionResponses ==
    { [meta |-> m,
       time_series |-> << [bucket |-> b, results |-> rs] >>,
       summary |-> <<>>] :
        m \in Metas, b \in Buckets, rs \in SeqsUpTo(NotionResults, MaxEntries) }

FormatForNotion ==
    /\ notion_data.outcome = "none"
    /\ \E ud \in NotionResponses :
        /\ usage_data' = ud
        /\ notion_data' = format_for_notion(ud)
    /\ UNCHANGED <<engineVars, findVars, pricing_map, ledger, attributed, invVars,
                   restVars>>

NextFormat == FormatForNotion

SpecFormat == Init /\ [][NextFormat]_vars

\* -------------------------------------------------------- fetch_invoices
\* An amount as the extraction gives it: no key, a number, or a text that
\* float() does not take.
NoAmount == [kind |-> "missing", value |-> 0]
Amount(n) == [kind |-> "num", value |-> n]
TextAmount == [kind |-> "text", value |-> 0]

\* str(x).strip() on the texts of the domains below.
Strip(text) == IF text = " A " THEN "A" ELSE text

\* datetime.strptime(text, "%Y-%m-%d") succeeds: %m and %d take a month and
\* a day of one digit as well as of two.
IsYmd(text) == text \in {"2024-01-15", "2024-02-01", "2024-1-5"}

\* s.replace(",", " -") on the service names of the domains below.
CommaToDash(text) == IF text = "a, b" THEN "a - b" ELSE text

OrDefault(text, default) == IF text = NoVal THEN default ELSE text

\* _validate_invoice(invoice): the cleaned invoice, or ok = FALSE where it
\* raises.  A key the invoice does not hold is NoVal (NoAmount for amount).
validate_invoice(invoice) ==
    IF \/ invoice.invoice_id = NoVal \/ invoice.date = NoVal
       \/ invoice.amount.kind = "missing" \/ invoice.service = NoVal
    THEN [ok |-> FALSE, invoice |-> invoice]
    ELSE IF ~IsYmd(invoice.date) THEN [ok |-> FALSE, invoice |-> invoice]
    ELSE IF invoice.amount.kind # "num" \/ invoice.amount.value < 0
         THEN [ok |-> FALSE, invoice |-> invoice]
    ELSE [ok |-> TRUE,
          invoice |-> [invoice_id |-> Strip(invoice.invoice_id),
                       date |-> invoice.date,
                       amount |-> invoice.amount,
                       description |-> Strip(OrDefault(invoice.description, "N/A")),
                       period |-> Strip(OrDefault(invoice.period, "N/A")),
                       service |-> CommaToDash(Strip(invoice.service)),
                       email_subject |-> Strip(OrDefault(invoice.email_subject, "N/A")),
                       paid_status |-> Strip(OrDefault(invoice.paid_status, "Paid"))]]

\* The validated invoices of an extracted list, in order; an invoice that
\* does not validate is left out.
RECURSIVE ValidatedOf(_)
ValidatedOf(extracted) ==
    IF extracted = <<>> THEN <<>>
    ELSE LET v == validate_invoice(Head(extracted))
         IN  (IF v.ok THEN <<v.invoice>> ELSE <<>>) \o ValidatedOf(Tail(extracted))

\* The invoices a keyword pass may extract from the mail.
Extractable ==
    [invoice_id : {"A", " A ", "B"}, date : {"2024-01-15", "15/01/2024"},
     amount : {Amount(10), Amount(-5), TextAmount, NoAmount},
     description : {"d1", "d2"}, period : {NoVal},
     service : {"svc"}, email_subject : {NoVal}, paid_status : {NoVal}]

\* What _fetch_invoices_single_keyword comes back with: an exception (the
\* upstream call failed, the output is no JSON or no list) or the list of
\* validated invoices.
PassOutcomes ==
    { [raised |-> TRUE, invoices |-> <<>>] }
        \cup { [raised |-> FALSE, invoices |-> ValidatedOf(ex)] :
                 ex \in SeqsUpTo(Extractable, MaxExtracted) }

\* An id seen before replaces the record merged for it.
RECURSIVE Merge_LastWins(_, _, _)
Merge_LastWins(all, seen, invoices) ==
    IF invoices = <<>> THEN [all |-> all, seen |-> seen]
    ELSE LET invoice == Head(invoices)
         IN  IF invoice.invoice_id \notin seen
             THEN Merge_LastWins(Append(all, invoice), seen \cup {invoice.invoice_id},
                                 Tail(invoices))
             ELSE Merge_LastWins(
                      [i \in DOMAIN all |->
                          IF all[i].invoice_id = invoice.invoice_id THEN invoice
                          ELSE all[i]],
                      seen, Tail(invoices))

\* The dedup loop over the invoices of one pass: an invoice whose id has
\* not been seen is appended and its id remembered.
RECURSIVE Merge(_, _, _)
Merge(all, seen, invoices) ==
    IF invoices = <<>> THEN [all |-> all, seen |-> seen]
    ELSE LET invoice == Head(invoices)
         IN  IF invoice.invoice_id \notin seen
             THEN Merge(Append(all, invoice), seen \cup {invoice.invoice_id},
                        Tail(invoices))
             ELSE Merge(all, seen, Tail(invoices))

\* The exception of a pass leaves the loop over the keywords.
NextKeyword_Abort(pass, k, keywords) ==
    IF pass.raised THEN Len(keywords) + 1 ELSE k + 1

\* The keyword the loop goes on with after a pass: the except clause ends
\* in continue, so it is the next one whether the pass raised or not.
NextKeyword(pass, k, keywords) == k + 1

KeywordLists == SeqsUpTo({"kw"}, MaxKeywords)

\* fetch_invoices(search_keywords, ...): an empty keyword list raises
\* ValueError before any pass.
FetchInvoices ==
    /\ inv_pc = "idle"
    /\ \E kws \in KeywordLists :
        /\ search_keywords' = kws
        /\ inv_pc' = IF kws = <<>> THEN "raised" ELSE "loop"
    /\ kidx' = 1
    /\ all_invoices' = <<>>
    /\ seen_invoice_ids' = {}
    /\ passes' = <<>>
    /\ UNCHANGED <<engineVars, findVars, usage_data, pricing_map, ledger,
                   attributed, notion_data, restVars>>

\* One keyword of the loop: the pass, then the merge of what it returned; a
\* pass that raises is reported and the loop goes on.
KeywordPass ==
    /\ inv_pc = "loop"
    /\ kidx <= Len(search_keywords)
    /\ \E pass \in PassOutcomes :
        LET merged == Merge(all_invoices, seen_invoice_ids, pass.invoices)
        IN  /\ all_invoices' = merged.all
            /\ seen_invoice_ids' = merged.seen
            /\ passes' = Append(passes, pass)
            /\ kidx' = NextKeyword(pass, kidx, search_keywords)
    /\ UNCHANGED <<inv_pc, search_keywords>>
    /\ UNCHANGED <<engineVars, findVars, usage_data, pricing_map, ledger,
                   attributed, notion_data, restVars>>

\* After the last keyword all_invoices is returned.
FetchReturn ==
    /\ inv_pc = "loop"
    /\ kidx > Len(search_keywords)
    /\ inv_pc' = "returned"
    /\ UNCHANGED <<search_keywords, kidx, all_invoices, seen_invoice_ids, passes>>
    /\ UNCHANGED <<engineVars, findVars, usage_data, pricing_map, ledger,
                   attributed, notion_data, restVars>>

NextInvoices ==
    \/ FetchInvoices
    \/ KeywordPass
    \/ FetchReturn

SpecInvoices == Init /\ [][NextInvoices]_vars

\* ------------------------------------ _fetch_invoices_single_keyword alone
\* The dicts of the list json.loads gave: every required key present or
\* not, dates that strptime takes and one it does not, amounts that float()
\* takes (one of them negative) and one it does not.
InvoiceDicts ==
    [invoice_id : {NoVal, "A"},
     date : {NoVal, "2024-01-15", "2024-1-5", "03-05-2024"},
     amount : {NoAmount, Amount(10), Amount(-5), TextAmount},
     description : {NoVal, "d1"}, period : {NoVal},
     service : {NoVal, "svc", "a, b"}, email_subject : {NoVal},
     paid_status : {NoVal, "Unpaid"}]

\* The validation loop of _fetch_invoices_single_keyword over a parsed list.
FetchInvoicesSingleKeyword ==
    /\ ~parsed_invoices.called
    /\ \E parsed \in SeqsUpTo(InvoiceDicts, MaxExtracted) :
        /\ parsed_invoices' = [called |-> TRUE, list |-> parsed]
        /\ validated_invoices' = ValidatedOf(parsed)
    /\ UNCHANGED <<engineVars, findVars, usage_data, pricing_map, ledger,
                   attributed, notion_data, invVars, clientVars, sinvVars>>

NextValidate == FetchInvoicesSingleKeyword

SpecValidate == Init /\ [][NextValidate]_vars

\* --------------------------------------------------------------- get_usage
\* The query as cli_mode() runs it: the model list, parse_date_range, then
\* FalAPIClient.get_usage with its calls of _get_usage_single.  Moments are
\* integers; Now is the moment of the call and Midnight the start of its
\* day.  An endpoint list is the number of its ids.
MaxRequests == 4     \* requests sent before the model stops following a query
Now == 3
Midnight == 2
MaxEndpoints == 50
max_retries == 3
retry_delay == 1

EndpointCounts == {0, 1, 3, MaxEndpoints, MaxEndpoints + 1}

\* --preset, --start-date and --end-date: none, an ordered pair, an inverted
\* pair, an equal pair, a start without end before and after Now, and a
\* preset given together with an inverted pair.
DateArgs ==
    { [preset |-> NoVal, start_date |-> Absent, end_date |-> Absent],
      [preset |-> NoVal, start_date |-> 1, end_date |-> 2],
      [preset |-> NoVal, start_date |-> 2, end_date |-> 1],
      [preset |-> NoVal, start_date |-> 2, end_date |-> 2],
      [preset |-> NoVal, start_date |-> 1, end_date |-> Absent],
      [preset |-> NoVal, start_date |-> 4, end_date |-> Absent],
      [preset |-> "today", start_date |-> 2, end_date |-> 1] }

UsageArgs ==
    { [n |-> n, preset |-> d.preset, start_date |-> d.start_date,
       end_date |-> d.end_date] : n \in EndpointCounts, d \in DateArgs }

\* The test of parse_date_range on the range it worked out.
RangeRejected(start, end) == end < start

\* parse_date_range(preset, start_date, end_date, tz): the preset first,
\* then start_date with end_date or with now, then the last 24 hours.
parse_date_range(a) ==
    LET range == IF a.preset # NoVal THEN [start |-> Midnight, end |-> Now]
                 ELSE IF a.start_date # Absent
                      THEN [start |-> a.start_date,
                            end |-> IF a.end_date # Absent THEN a.end_date ELSE Now]
                      ELSE [start |-> Now - 1, end |-> Now]
    IN  [ok |-> ~RangeRejected(range.start, range.end),
         start |-> range.start, end |-> range.end]

\* A list of exactly MaxEndpoints ids is refused as well.
EndpointsRejected_Inclusive(n) == n = 0 \/ n >= MaxEndpoints

\* The two tests at the head of get_usage.
EndpointsRejected(n) == n = 0 \/ n > MaxEndpoints

\* What the usage API may answer to one request: a page (200) that holds
\* data or not, with has_more and next_cursor; 429 without Retry-After,
\* with a number of seconds or with an HTTP date; 500; 404.
HttpDate == "Wed, 21 Oct 2026 07:28:00 GMT"

Responses ==
    { [status |-> 200, has_more |-> h, next_cursor |-> c, filled |-> f,
       retry_after |-> NoVal] :
          h \in BOOLEAN, c \in {NoVal, "c1"}, f \in BOOLEAN }
    \cup { [status |-> 429, has_more |-> FALSE, next_cursor |-> NoVal,
            filled |-> FALSE, retry_after |-> r] : r \in {NoVal, "2", HttpDate} }
    \cup { [status |-> st, has_more |-> FALSE, next_cursor |-> NoVal,
            filled |-> FALSE, retry_after |-> NoVal] : st \in {500, 404} }

\* float(text) on the Retry-After values above: ok = FALSE where it raises
\* ValueError.
Float(text) ==
    IF text = "2" THEN [ok |-> TRUE, value |-> 2] ELSE [ok |-> FALSE, value |-> 0]

\* wait_time of the retry loop at attempt k.
WaitTime(retry_after, k) ==
    IF retry_after # NoVal THEN Float(retry_after)
    ELSE [ok |-> TRUE, value |-> retry_delay * 2^k]

\* The answers the retry loop handles in its first branch.
Retryable(status) == status = 429

\* The test of `while has_more`.
LoopAgain(more, next) == more

\* response.json() of a page: the data it holds carries the number of the
\* request that fetched it.
PageData(response, tag) ==
    [time_series |-> IF response.filled THEN <<tag>> ELSE <<>>,
     summary |-> IF response.filled THEN <<tag>> ELSE <<>>,
     has_more |-> response.has_more,
     next_cursor |-> response.next_cursor]

\* The result _get_usage_single builds from all_data: the page itself when
\* there is one, otherwise the pages wrapped under "items" (_meta is left
\* out).
SingleResult(pages) ==
    IF Len(pages) = 1
    THEN [wrapped |-> FALSE, time_series |-> pages[1].time_series,
          summary |-> pages[1].summary, items |-> <<>>]
    ELSE [wrapped |-> TRUE, time_series |-> <<>>, summary |-> <<>>,
          items |-> pages]

Raised(kind, by) == [kind |-> kind, by |-> by, result |-> NoResult]

\* cli_mode(): an empty model list and an inverted date range raise before
\* the client is built; get_usage tests the endpoint list again and starts
\* _get_usage_single.
GetUsage ==
    /\ cl_pc = "idle"
    /\ \E a \in UsageArgs :
        LET range == parse_date_range(a)
            error == IF a.n = 0 THEN "main"
                     ELSE IF ~range.ok THEN "parse_date_range"
                     ELSE IF EndpointsRejected(a.n) THEN "get_usage"
                     ELSE "none"
        IN  /\ usage_args' = a
            /\ cl_pc' = IF error = "none" THEN "single" ELSE "raised"
            /\ usage_out' = IF error = "none" THEN NoUsageOut
                            ELSE Raised("ValueError", error)
    /\ eidx' = 1
    /\ all_data' = <<>>
    /\ cursor' = NoVal
    /\ params_cursor' = NoVal
    /\ has_more' = TRUE
    /\ attempt' = 0
    /\ sent' = <<>>
    /\ all_time_series' = <<>>
    /\ all_summaries' = <<>>
    /\ UNCHANGED <<engineVars, findVars, usage_data, pricing_map, ledger,
                   attributed, notion_data, invVars, valVars, sinvVars>>

\* One requests.get of _get_usage_single and what the code does with the
\* answer: wait and retry, raise, or take the page; after the last page the
\* result is built and get_usage returns it or goes on with the next
\* endpoint.
PageRequest ==
    /\ cl_pc = "single"
    /\ Len(sent) < MaxRequests
    /\ \E response \in Responses :
        LET param == IF cursor # NoVal THEN cursor ELSE params_cursor
            wait == WaitTime(response.retry_after, attempt)
            retry == Retryable(response.status) /\ attempt < max_retries - 1
            page == PageData(response, Len(sent) + 1)
            pages == Append(all_data, page)
            again == LoopAgain(page.has_more, page.next_cursor)
            result == SingleResult(pages)
            summaries == all_summaries \o result.summary
            series == all_time_series \o result.time_series
            split == usage_args.n > 2
            calls == IF split THEN usage_args.n ELSE 1
            entry == [call |-> eidx, cursor |-> param, attempt |-> attempt,
                      response |-> response,
                      wait |-> IF retry /\ wait.ok THEN wait.value ELSE Absent,
                      used |-> response.status = 200]
        IN  /\ sent' = Append(sent, entry)
            /\ params_cursor' = param
            /\ IF retry
               THEN /\ cl_pc' = IF wait.ok THEN "single" ELSE "raised"
                    /\ usage_out' = IF wait.ok THEN usage_out
                                    ELSE Raised("ValueError", "_get_usage_single")
                    /\ attempt' = IF wait.ok THEN attempt + 1 ELSE attempt
                    /\ UNCHANGED <<eidx, all_data, cursor, has_more,
                                   all_time_series, all_summaries>>
               ELSE IF response.status # 200
               THEN /\ cl_pc' = "raised"
                    /\ usage_out' = Raised("HTTPError", "_get_usage_single")
                    /\ UNCHANGED <<eidx, all_data, cursor, has_more, attempt,
                                   all_time_series, all_summaries>>
               ELSE IF again
               THEN /\ all_data' = pages
                    /\ has_more' = page.has_more
                    /\ cursor' = IF page.has_more THEN page.next_cursor ELSE NoVal
                    /\ attempt' = 0
                    /\ UNCHANGED <<cl_pc, usage_out, eidx, all_time_series,
                                   all_summaries>>
               ELSE /\ all_data' = <<>>
                    /\ has_more' = TRUE
                    /\ cursor' = NoVal
                    /\ attempt' = 0
                    /\ IF eidx < calls
                       THEN /\ eidx' = eidx + 1
                            /\ all_summaries' = summaries
                            /\ all_time_series' = series
                            /\ UNCHANGED <<cl_pc, usage_out>>
                       ELSE /\ cl_pc' = "returned"
                            /\ usage_out' =
                                  [kind |-> "response", by |-> "get_usage",
                                   result |-> IF split
                                              THEN [wrapped |-> FALSE,
                                                    time_series |-> series,
                                                    summary |-> summaries,
                                                    items |-> <<>>]
                                              ELSE result]
                            /\ UNCHANGED <<eidx, all_summaries, all_time_series>>
    /\ UNCHANGED usage_args
    /\ UNCHANGED <<engineVars, findVars, usage_data, pricing_map, ledger,
                   attributed, notion_data, invVars, valVars, sinvVars>>

NextClient ==
    \/ GetUsage
    \/ PageRequest

SpecClient == Init /\ [][NextClient]_vars

\* ----------------------------------------------------------- save_invoices
\* The invoices handed to save_invoices: with or without invoice_id, with a
\* date that strptime takes or one it does not.
SiInvoices == [invoice_id : {"A", "B", NoVal}, date : {"2024-01-15", "15/01/2024"}]

SiLists == SeqsUpTo(SiInvoices, MaxBatch)

\* The pages whose Invoice Number equals invoice_id: the ids the query by
\* title may return first.
Existing(pages, invoice_id) ==
    { pages[i].id : i \in { j \in DOMAIN pages : pages[j].invoice_number = invoice_id } }

\* find_existing_invoice(database_id, invoice_id): the id of the first
\* result, or None (NoPage) when there is none, when the status is not 200
\* and when the call raises.
find_existing_invoice(query, first) ==
    IF query = "ok" THEN first ELSE NoPage

\* create_invoice_page(...): the pages after the call.  A date strptime
\* does not take and a failing remote call leave the store as it was (the
\* function returns None).
create_invoice_page(pages, invoice_id, date, write) ==
    IF IsYmd(date) /\ write = "ok"
    THEN Append(pages, [id |-> Len(pages) + 1, invoice_number |-> invoice_id])
    ELSE pages

\* With update_existing set an invoice that was found is created again.
InvoiceBranch_UpdateCreates(invoice, existing_page_id, update) ==
    IF invoice.invoice_id = NoVal \/ invoice.date = NoVal THEN "invalid"
    ELSE IF existing_page_id # NoPage /\ ~update THEN "found"
    ELSE "create"

\* The way an iteration of save_invoices takes: "invalid" (no invoice_id or
\* no date), "found" (both settings of update_existing skip) or "create".
InvoiceBranch(invoice, existing_page_id, update) ==
    IF invoice.invoice_id = NoVal \/ invoice.date = NoVal THEN "invalid"
    ELSE IF existing_page_id # NoPage THEN "found"
    ELSE "create"

\* save_invoices(database_id, invoices, update_existing); an empty list
\* returns the zero stats at once.
SaveInvoices ==
    /\ si_pc = "idle"
    /\ si_nruns < MaxRuns
    /\ \E list \in SiLists, ue \in BOOLEAN :
        /\ inv_list' = list
        /\ si_update' = ue
        /\ IF list = <<>>
           THEN si_pc' = "idle" /\ si_out' = [kind |-> "stats", stats |-> ZeroStats]
           ELSE si_pc' = "loop" /\ si_out' = [kind |-> "none", stats |-> ZeroStats]
    /\ si_idx' = 1
    /\ si_stats' = ZeroStats
    /\ si_last' = NoSiLast
    /\ si_nruns' = si_nruns + 1
    /\ si_run' = [NoRun EXCEPT !.fromEmpty = (inv_db = <<>>), !.sound = si_run.sound]
    /\ UNCHANGED inv_db
    /\ UNCHANGED <<engineVars, findVars, usage_data, pricing_map, ledger,
                   attributed, notion_data, invVars, valVars, clientVars>>

\* The caller hands the same invoices to save_invoices a second time, with
\* either setting of update_existing.
ResubmitInvoices ==
    /\ si_pc = "idle"
    /\ si_out.kind = "stats"
    /\ inv_list # <<>>
    /\ ~si_run.again
    /\ si_nruns < MaxRuns
    /\ \E ue \in BOOLEAN : si_update' = ue
    /\ si_pc' = "loop"
    /\ si_idx' = 1
    /\ si_stats' = ZeroStats
    /\ si_last' = NoSiLast
    /\ si_nruns' = si_nruns + 1
    /\ si_out' = [kind |-> "none", stats |-> ZeroStats]
    /\ si_run' = [clean |-> TRUE, sound |-> si_run.sound, fromEmpty |-> FALSE,
                  again |-> TRUE,
                  first |-> si_out.stats,
                  firstClean |-> si_run.clean /\ si_run.fromEmpty]
    /\ UNCHANGED <<inv_db, inv_list>>
    /\ UNCHANGED <<engineVars, findVars, usage_data, pricing_map, ledger,
                   attributed, notion_data, invVars, valVars, clientVars>>

\* One invoice of the loop: the test of invoice_id and date, the lookup,
\* and the creation when the lookup came back with nothing.
ProcessInvoice ==
    /\ si_pc = "loop"
    /\ si_idx <= Len(inv_list)
    /\ LET invoice == inv_list[si_idx]
           valid == invoice.invoice_id # NoVal /\ invoice.date # NoVal
       IN  \E query \in IF valid THEN QueryOutcomes ELSE {"none"} :
           \E first \in IF query = "ok" /\ Existing(inv_db, invoice.invoice_id) # {}
                         THEN Existing(inv_db, invoice.invoice_id) ELSE {NoPage} :
               LET existing_page_id == find_existing_invoice(query, first)
                   branch == InvoiceBranch(invoice, existing_page_id, si_update)
               IN  \E write \in IF branch = "create" THEN WriteOutcomes ELSE {"none"} :
                   LET pages == IF branch = "create"
                                THEN create_invoice_page(inv_db, invoice.invoice_id,
                                                         invoice.date, write)
                                ELSE inv_db
                       counter == IF branch = "create" /\ pages # inv_db
                                  THEN "created" ELSE "skipped"
                   IN  /\ inv_db' = pages
                       /\ si_stats' = Bump(si_stats, counter)
                       /\ si_last' = [branch |-> branch, query |-> query,
                                      write |-> write, page |-> existing_page_id,
                                      before |-> inv_db, stats0 |-> si_stats,
                                      counter |-> counter, at |-> si_idx]
                       /\ si_run' = [si_run EXCEPT
                              !.clean = @ /\ query \in {"ok", "none"}
                                          /\ write \in {"ok", "none"},
                              !.sound = @ /\ query \in {"ok", "none"}
                                          /\ write \in {"ok", "none"}]
    /\ si_idx' = si_idx + 1
    /\ UNCHANGED <<si_pc, inv_list, si_update, si_out, si_nruns>>
    /\ UNCHANGED <<engineVars, findVars, usage_data, pricing_map, ledger,
                   attributed, notion_data, invVars, valVars, clientVars>>

\* The loop is over: save_invoices returns stats.
SaveInvoicesReturn ==
    /\ si_pc = "loop"
    /\ si_idx > Len(inv_list)
    /\ si_pc' = "idle"
    /\ si_out' = [kind |-> "stats", stats |-> si_stats]
    /\ UNCHANGED <<inv_db, inv_list, si_idx, si_update, si_stats, si_last, si_run,
                   si_nruns>>
    /\ UNCHANGED <<engineVars, findVars, usage_data, pricing_map, ledger,
                   attributed, notion_data, invVars, valVars, clientVars>>

NextSaveInvoices ==
    \/ SaveInvoices
    \/ ResubmitInvoices
    \/ ProcessInvoice
    \/ SaveInvoicesReturn

SpecSaveInvoices == Init /\ [][NextSaveInvoices]_vars

\* ====================================================================
\* Properties
\* ====================================================================
HasDuplicateKeys(pages) ==
    \E i, j \in DOMAIN pages :
        /\ i < j
        /\ pages[i].date = pages[j].date
        /\ pages[i].model = pages[j].model
        /\ pages[i].key = pages[j].key
        /\ pages[i].cost = pages[j].cost
        /\ pages[i].time = pages[j].time

\* Record b would be taken as a duplicate of the page made from record a:
\* same date and model, key alias equal (or none looked up), cost within the
\* tolerance (or none looked up), time equal or absent on either side.
Collide(a, b) ==
    /\ a.date = b.date
    /\ a.model = b.model
    /\ (b.auth_method = NoVal \/ a.auth_method = b.auth_method)
    /\ (b.cost = NoCost \/ (a.cost # NoCost /\ Abs(a.cost - b.cost) <= CostTol))
    /\ (a.time = NoVal \/ b.time = NoVal \/ a.time = b.time)

PairwiseDistinct(recs) ==
    /\ \A i \in DOMAIN recs : recs[i].date # NoVal /\ recs[i].model # NoVal
    /\ \A i, j \in DOMAIN recs : i # j => ~Collide(recs[i], recs[j])

\* The same records were submitted twice to an initially empty store with
\* update_existing = false, every remote call of both runs succeeded, and
\* the second run has returned.
TwiceDone ==
    /\ pc = "idle"
    /\ run.again
    /\ out.kind = "stats"
    /\ run.firstClean
    /\ run.clean
    /\ ~update_existing

TwiceStats ==
    /\ run.first = [created |-> Len(records), updated |-> 0, skipped |-> 0]
    /\ out.stats.created = 0
    /\ out.stats.skipped = Len(records)

C2_NoDuplicateKeys == ~HasDuplicateKeys(store)

\* C3: a record whose query returned a non-success status is counted as
\* skipped, writes nothing, and the loop goes on.
C3_Non200Skipped ==
    last.query = "non200" =>
        /\ stats = Bump(last.stats0, "skipped")
        /\ store = last.before
        /\ out.kind \notin {"raised", "error"}

\* C4: a record whose create or update call failed increments skipped only,
\* leaves the store unchanged, and the loop goes on with the next record.
C4_FailedWriteSkipped ==
    last.write = "fail" =>
        /\ stats = Bump(last.stats0, "skipped")
        /\ store = last.before
        /\ idx = last.at + 1
        /\ out.kind \notin {"raised", "error"}

C4_Witness ==
    /\ last.write = "fail"
    /\ last.branch \in {"time_only", "full_update"}
    /\ pc = "sud"
    /\ idx <= Len(records)

\* C5: a save_to_notion run that reached the upsert loop ends by reporting
\* the aggregate counters.
C5_CountersReported ==
    (pc = "idle" /\ caller = "cli" /\ out.kind \notin {"no_key", "no_data", "dry_run"})
        => out.kind = "counters"

\* Page p passes every comparison the lookup of record r requires.
Passes(p, r) ==
    /\ p.date = r.date
    /\ p.model = r.model
    /\ (r.auth_method # NoVal => p.key = r.auth_method)
    /\ (r.cost # NoCost => (p.cost # NoCost /\ Abs(p.cost - r.cost) <= CostTol))
    /\ (r.time # NoVal => (p.time = r.time \/ p.time = NoVal))

\* Date, model, key alias and cost of page p match record r.
KeyMatches(p, r) ==
    /\ p.date = r.date
    /\ p.model = r.model
    /\ p.key = r.auth_method
    /\ p.cost # NoCost /\ r.cost # NoCost /\ Abs(p.cost - r.cost) <= CostTol

Iterated == last.branch # "none"

SamePlace(p, q) == p.id = q.id /\ p.date = q.date /\ p.model = q.model /\ p.key = q.key

SameUsage(p, q) ==
    /\ p.requests = q.requests
    /\ p.quantity = q.quantity
    /\ p.cost = q.cost
    /\ p.unit_price = q.unit_price

\* Exactly page i of the store changed, and only in its Time, now t.
OnlyTimeSet(before, after, i, t) ==
    /\ i \in DOMAIN before
    /\ after = [before EXCEPT ![i].time = t]

\* C6 (as stated), read with every remote call so far succeeding: whenever
\* the store holds a page without Time whose date, model, key
\* alias and cost match a record that carries a time, the iteration is one
\* time-only update of such a page, counted as updated.
C6_NoTimePageBackfilled ==
    (/\ Iterated
     /\ run.sound
     /\ last.rec.time # NoVal
     /\ \E i \in DOMAIN last.before :
            last.before[i].time = NoVal /\ KeyMatches(last.before[i], last.rec))
    => /\ stats = Bump(last.stats0, "updated")
       /\ \E i \in DOMAIN last.before :
            /\ last.before[i].time = NoVal
            /\ KeyMatches(last.before[i], last.rec)
            /\ OnlyTimeSet(last.before, store, i, last.rec.time)

\* C6 (amended): when the page find_existing_page returns is a page without
\* Time (the first candidate passing the comparisons) and the update call
\* succeeds, then for either value of update_existing the iteration writes
\* only that page's Time, counts one updated and none created, and leaves
\* Requests, Quantity, Cost and Unit Price of every page as they were.
C6_FoundNoTimePageBackfilled ==
    (last.page # NoPage /\ last.needs /\ last.write = "ok")
    => /\ last.rec.time # NoVal
       /\ last.page \in DOMAIN last.before
       /\ last.before[last.page].time = NoVal
       /\ Passes(last.before[last.page], last.rec)
       /\ stats = Bump(last.stats0, "updated")
       /\ OnlyTimeSet(last.before, store, last.page, last.rec.time)

C6_Witness ==
    /\ last.page # NoPage /\ last.needs /\ last.write = "ok"
    /\ update_existing
    /\ ~SameUsage(last.before[last.page], last.rec)

\* C7: with update_existing = false a record that matches a page, and is
\* not a time-backfill case, writes nothing: the store is as before and
\* skipped grew by one.
C7_DuplicateUntouched ==
    (~update_existing /\ last.page # NoPage /\ ~last.needs)
    => /\ store = last.before
       /\ last.write = "none"
       /\ stats = Bump(last.stats0, "skipped")

C7_Witness ==
    /\ ~update_existing /\ last.page # NoPage /\ ~last.needs
    /\ ~SameUsage(last.before[last.page], last.rec)

\* C8: with update_existing = true a record that matches a page, and is not
\* a time-backfill case, is written onto that page by a successful update:
\* Requests, Quantity, Cost and Unit Price become the record's, updated
\* grows by one, no page is added, Date, Model and Key Name stay, and every
\* other page is as before.
C8_MatchUpdatedInPlace ==
    (update_existing /\ last.page # NoPage /\ ~last.needs /\ last.write = "ok")
    => /\ stats = Bump(last.stats0, "updated")
       /\ Len(store) = Len(last.before)
       /\ last.page \in DOMAIN store
       /\ \A i \in DOMAIN store :
            IF i = last.page
            THEN /\ SameUsage(store[i], last.rec)
                 /\ SamePlace(store[i], last.before[i])
            ELSE store[i] = last.before[i]

C8_Witness ==
    /\ update_existing /\ last.page # NoPage /\ ~last.needs /\ last.write = "ok"
    /\ last.before[last.page].cost # last.rec.cost
    /\ Len(store) > 1

\* Page p agrees with record r on date, model, key alias and cost, and has
\* a Time that is not the record's.
TimeDiffers(p, r) ==
    /\ KeyMatches(p, r)
    /\ p.time # NoVal /\ r.time # NoVal /\ p.time # r.time

\* C9: a candidate that matches on date, model, key alias and cost but has
\* another non-empty Time is never the page returned; the scan goes on, so
\* a later passing candidate is returned, and with no passing candidate the
\* record goes to create_page, whose success adds it as a new page.
C9_OtherTimeNotReturned ==
    (/\ Iterated
     /\ last.query = "ok"
     /\ \E i \in DOMAIN last.before : TimeDiffers(last.before[i], last.rec))
    => /\ \A i \in DOMAIN last.before :
            TimeDiffers(last.before[i], last.rec) => last.page # last.before[i].id
       /\ IF \E i \in DOMAIN last.before : Passes(last.before[i], last.rec)
          THEN /\ last.page \in DOMAIN last.before
               /\ Passes(last.before[last.page], last.rec)
          ELSE /\ last.page = NoPage
               /\ last.branch = "create"
               /\ last.write = "ok" =>
                    /\ stats = Bump(last.stats0, "created")
                    /\ Len(store) = Len(last.before) + 1
                    /\ SubSeq(store, 1, Len(last.before)) = last.before
                    /\ SameUsage(store[Len(store)], last.rec)
                    /\ store[Len(store)].date = last.rec.date
                    /\ store[Len(store)].model = last.rec.model
                    /\ store[Len(store)].key = last.rec.auth_method
                    /\ store[Len(store)].time = last.rec.time

C9_Witness ==
    /\ Iterated
    /\ last.query = "ok"
    /\ \E i \in DOMAIN last.before : TimeDiffers(last.before[i], last.rec)
    /\ last.branch = "create"
    /\ last.write = "ok"

\* The candidates in the order the store returned them, and the first one
\* that passes.
Returned == DateFiltered(cands, args.date)

FirstPassing ==
    { i \in DOMAIN Returned :
        /\ Passes(Returned[i], args)
        /\ \A j \in 1..(i - 1) : ~Passes(Returned[j], args) }

\* C10: find_existing_page returns the first returned candidate that passes
\* all required comparisons, flagged for a time update exactly when that
\* page has no Time and the record has one; it returns none when no
\* candidate passes.
C10_FirstPassingWins ==
    (found.called /\ found.query = "ok")
    => /\ found.is_tuple
       /\ IF FirstPassing = {}
          THEN found.page_id = NoPage /\ ~found.needs_time_update
          ELSE \E i \in FirstPassing :
                 /\ found.page_id = Returned[i].id
                 /\ found.needs_time_update =
                        (args.time # NoVal /\ Returned[i].time = NoVal)

\* An earlier page that is only a time-backfill match, a later one with the
\* record's exact time: the earlier one is returned.
C10_Witness ==
    /\ found.called /\ found.query = "ok"
    /\ Len(Returned) = 2
    /\ args.time # NoVal
    /\ Passes(Returned[1], args) /\ Returned[1].time = NoVal
    /\ Passes(Returned[2], args) /\ Returned[2].time = args.time
    /\ found.page_id = Returned[1].id

\* C11: a save_to_notion call with dry_run set returns without the loop: the
\* store is as it was at the call, no record was looked up or written, and
\* what it reports is a record count for every auth_method of the
\* transformed data and no counter.
C11_DryRunNoRemoteCall ==
    (caller = "cli" /\ dry_run)
        => /\ pc = "idle"
           /\ store = last.before
           /\ last.branch = "none"
           /\ out.kind \in {"no_key", "no_data", "dry_run"}
           /\ out.stats = ZeroStats
           /\ out.kind = "dry_run"
                 => \E gs \in GroupOrders \ {<<>>} : \E nd \in NotionData(gs) :
                        out.counts = RecordCounts(nd)

C11_Witness ==
    /\ caller = "cli" /\ dry_run /\ pc = "idle"
    /\ out.kind = "dry_run"
    /\ store # <<>>
    /\ \E i \in DOMAIN out.counts : out.counts[i].count = MaxBatch

\* The sum of a field over the rows of by_model or by_auth_method.
RECURSIVE SumRows(_, _, _)
SumRows(rows, keys, field) ==
    IF keys = {} THEN 0
    ELSE LET k == CHOOSE x \in keys : TRUE
         IN  rows[k][field] + SumRows(rows, keys \ {k}, field)

Calculated == attributed.impl # "none"

\* C12: in the ledger of either calculator the costs of by_model add up to
\* total.cost, the requests to total.requests and the quantities to
\* total.quantity.
C12_ByModelSumsToTotal ==
    Calculated =>
        \A field \in {"requests", "quantity", "cost"} :
            SumRows(ledger.by_model, DOMAIN ledger.by_model, field)
                = ledger.total[field]

\* A time_series result and a summary item of the same endpoint_id, both
\* with a cost.
C12_Witness ==
    /\ Calculated
    /\ Len(attributed.entries) = 2
    /\ attributed.entries[1].shape = "time_series"
    /\ attributed.entries[2].shape = "summary"
    /\ attributed.entries[1].entry.endpoint_id = attributed.entries[2].entry.endpoint_id
    /\ attributed.entries[1].locals.cost > 0
    /\ attributed.entries[2].locals.cost > 0
    /\ DOMAIN ledger.by_model = {"m1"}

\* The cost the loops attributed to the counted entries, added up.
RECURSIVE SumLocals(_, _)
SumLocals(cs, field) ==
    IF cs = <<>> THEN 0
    ELSE Head(cs).locals[field] + SumLocals(Tail(cs), field)

HasOwnCost(entry) == entry.cost # Absent /\ entry.cost # 0

\* C13: a counted entry of either shape that carries a non-zero cost is
\* attributed that cost, whatever its quantity and unit_price, and the
\* ledger's total cost is the sum of the attributed costs.
C13_OwnCostVerbatim ==
    Calculated =>
        /\ \A i \in DOMAIN attributed.entries :
              HasOwnCost(attributed.entries[i].entry)
                  => attributed.entries[i].locals.cost
                         = attributed.entries[i].entry.cost
        /\ ledger.total.cost = SumLocals(attributed.entries, "cost")

\* A summary item alone whose cost differs from quantity * unit_price.
C13_Witness ==
    /\ Calculated
    /\ Len(attributed.entries) = 1
    /\ LET c == attributed.entries[1]
       IN  /\ c.shape = "summary"
           /\ HasOwnCost(c.entry)
           /\ c.entry.quantity # Absent /\ c.entry.unit_price \notin {Absent, 0}
           /\ c.entry.quantity * c.entry.unit_price # c.entry.cost
           /\ ledger.by_model[c.entry.endpoint_id].cost = c.entry.cost
           /\ ledger.total.cost = c.entry.cost

\* The unit prices known for an entry: its own and, for the calculator
\* that takes a pricing map, the map's price of its endpoint_id.
KnownPrices(entry) ==
    (IF entry.unit_price # Absent THEN {entry.unit_price} ELSE {})
        \cup (IF entry.endpoint_id \in DOMAIN pricing_map
              THEN {pricing_map[entry.endpoint_id]} ELSE {})

\* C14: a counted entry of either shape whose cost is absent or zero and for
\* which a unit price is known is attributed quantity * unit_price, for a
\* known unit price.
C14_ComputedCost ==
    Calculated =>
        \A i \in DOMAIN attributed.entries :
            LET c == attributed.entries[i]
            IN  (~HasOwnCost(c.entry) /\ KnownPrices(c.entry) # {})
                    => \E u \in KnownPrices(c.entry) :
                           c.locals.cost = c.locals.quantity * u

\* The unit price the fallback chain names: the entry's own, else the
\* pricing map's for its endpoint_id, else 0.
ChainPrice(entry) ==
    IF entry.unit_price # Absent THEN entry.unit_price
    ELSE IF entry.endpoint_id \in DOMAIN pricing_map
         THEN pricing_map[entry.endpoint_id]
         ELSE 0

\* C15: for a counted entry of either shape whose cost is absent or zero,
\* the unit price the calculator works with is the entry's own when it has
\* one, else the pricing map's, else 0.
C15_EntryPriceFirst ==
    Calculated =>
        \A i \in DOMAIN attributed.entries :
            LET c == attributed.entries[i]
            IN  ~HasOwnCost(c.entry) => c.locals.unit_price = ChainPrice(c.entry)

\* {"summary": [{"endpoint_id": "m1", "quantity": 100, "unit_price": 0.01}]}
ExampleResponse ==
    [meta |-> NoUsage.meta, time_series |-> <<>>,
     summary |-> << [endpoint_id |-> "m1", quantity |-> 100, units |-> Absent,
                     cost |-> Absent, unit_price |-> 1, requests |-> Absent,
                     count |-> Absent, auth_method |-> NoAuth] >>]

\* C16: a counted entry with neither requests nor count is attributed its
\* quantity as requests, the quantity being the entry's quantity, else its
\* units, else 0; without a pricing map the example response gives
\* by_model[m1] = {requests: 100, quantity: 100, cost: 1.00, unit_price: 0.01}.
C16_RequestsDefaultToQuantity ==
    Calculated =>
        /\ \A i \in DOMAIN attributed.entries :
              LET c == attributed.entries[i]
              IN  /\ c.locals.quantity = Get(c.entry.quantity, Get(c.entry.units, 0))
                  /\ (c.entry.requests = Absent /\ c.entry.count = Absent)
                        => c.locals.requests = c.locals.quantity
        /\ (usage_data = ExampleResponse /\ pricing_map = NoPricing)
              => /\ DOMAIN ledger.by_model = {"m1"}
                 /\ ledger.by_model["m1"] = [requests |-> 100, quantity |-> 100,
                                             cost |-> 100, unit_price |-> 1]

\* C16 with units read for summary items only: the quantity of a
\* time_series result is its quantity, else 0.
C16_RequestsDefaultToReadQuantity ==
    Calculated =>
        /\ \A i \in DOMAIN attributed.entries :
              LET c == attributed.entries[i]
              IN  /\ c.locals.quantity =
                        IF c.shape = "summary"
                        THEN Get(c.entry.quantity, Get(c.entry.units, 0))
                        ELSE Get(c.entry.quantity, 0)
                  /\ (c.entry.requests = Absent /\ c.entry.count = Absent)
                        => c.locals.requests = c.locals.quantity
        /\ (usage_data = ExampleResponse /\ pricing_map = NoPricing)
              => /\ DOMAIN ledger.by_model = {"m1"}
                 /\ ledger.by_model["m1"] = [requests |-> 100, quantity |-> 100,
                                             cost |-> 100, unit_price |-> 1]

C16_Witness ==
    /\ attributed.impl = "usage_tracker"
    /\ usage_data = ExampleResponse
    /\ ledger.by_model["m1"].requests = 100
    /\ ledger.total = [requests |-> 100, quantity |-> 100, cost |-> 100]

\* The response without the i-th element of a sequence.
Without(seq, i) == SubSeq(seq, 1, i - 1) \o SubSeq(seq, i + 1, Len(seq))

\* The response without the j-th result of its i-th bucket, and without its
\* i-th summary item.
WithoutResult(ud, i, j) ==
    [ud EXCEPT !.time_series[i].results = Without(@, j)]

WithoutItem(ud, i) == [ud EXCEPT !.summary = Without(@, i)]

Recalculated(ud) == calculate_costs(ud, attributed.impl, pricing_map)

\* entry with endpoint_id and no auth_method: it is in by_model and total
\* with the amounts l, and by_auth_method is what it is without the entry.
OnlyModelAndTotal(entry, l, rest) ==
    /\ ledger.by_auth_method = rest.by_auth_method
    /\ entry.endpoint_id \in DOMAIN ledger.by_model
    /\ \A field \in {"requests", "quantity", "cost"} :
          /\ ledger.total[field] = rest.total[field] + l[field]
          /\ ledger.by_model[entry.endpoint_id][field]
                = l[field] + (IF entry.endpoint_id \in DOMAIN rest.by_model
                              THEN rest.by_model[entry.endpoint_id][field] ELSE 0)

Contribution(entry, shape, rest) ==
    LET l == IF attributed.impl = "formatter"
             THEN (IF shape = "summary" THEN FormatterSummaryLocals(entry, pricing_map)
                   ELSE FormatterTsLocals(entry, pricing_map))
             ELSE (IF shape = "summary" THEN TrackerSummaryLocals(entry)
                   ELSE TrackerTsLocals(entry))
    IN  /\ entry.endpoint_id = NoVal => ledger = rest
        /\ (entry.endpoint_id # NoVal /\ entry.auth_method = NoAuth)
              => OnlyModelAndTotal(entry, l, rest)

\* C17: the ledger of a response with an entry that has no endpoint_id is
\* the ledger of the response without the entry; an entry with endpoint_id
\* and without auth_method adds its amounts to by_model and total and leaves
\* by_auth_method as it is without the entry.
C17_DroppedAndUnattributed ==
    Calculated =>
        /\ \A i \in DOMAIN usage_data.time_series :
              \A j \in DOMAIN usage_data.time_series[i].results :
                  Contribution(usage_data.time_series[i].results[j], "time_series",
                               Recalculated(WithoutResult(usage_data, i, j)))
        /\ \A i \in DOMAIN usage_data.summary :
              Contribution(usage_data.summary[i], "summary",
                           Recalculated(WithoutItem(usage_data, i)))

Formatted == notion_data.outcome = "returned"

\* end - start of _meta, both given as ISO 8601 date-times of one kind.
HasSpan(meta) ==
    /\ meta.start.kind = "iso" /\ meta.end.kind = "iso"
    /\ Aware(meta.start) = Aware(meta.end)

Span(meta) == Instant(meta.end) - Instant(meta.start)

\* C18: without a timeframe in _meta, format_for_notion works with minute
\* for a span of at most two hours, hour for a longer span of at most two
\* days and day for any longer span.
C18_TimeframeInferred ==
    (Formatted /\ usage_data.meta.timeframe = NoVal /\ HasSpan(usage_data.meta))
        => LET span == Span(usage_data.meta)
           IN  /\ span <= TwoHours => notion_data.timeframe = "minute"
               /\ (span > TwoHours /\ span <= TwoDays) => notion_data.timeframe = "hour"
               /\ span > TwoDays => notion_data.timeframe = "day"

\* A span of exactly two hours, start and end given in different zones.
C18_Witness ==
    /\ Formatted
    /\ usage_data.meta.timeframe = NoVal
    /\ HasSpan(usage_data.meta)
    /\ usage_data.meta.start.zone # usage_data.meta.end.zone
    /\ Span(usage_data.meta) = TwoHours
    /\ notion_data.timeframe = "minute"

\* Every record format_for_notion returned.
RECURSIVE AllRecords(_)
AllRecords(nd) ==
    IF nd = <<>> THEN <<>> ELSE Head(nd).records \o AllRecords(Tail(nd))

\* C19: a record of format_for_notion carries a time exactly when the
\* timeframe worked with is minute or hour.
C19_TimeIffMinuteOrHour ==
    Formatted =>
        \A i \in DOMAIN AllRecords(notion_data.data) :
            AllRecords(notion_data.data)[i].has_time
                <=> notion_data.timeframe \in {"minute", "hour"}

\* The invoices of all passes so far, in pass order.
RECURSIVE Concat(_)
Concat(ps) == IF ps = <<>> THEN <<>> ELSE Head(ps).invoices \o Concat(Tail(ps))

\* The first record with the given id among the invoices of all passes.
FirstWithId(id) ==
    LET xs == Concat(passes)
    IN  xs[CHOOSE i \in DOMAIN xs :
               xs[i].invoice_id = id /\ \A j \in 1..(i - 1) : xs[j].invoice_id # id]

\* C20: the list fetch_invoices returns holds no invoice_id twice; it holds
\* every invoice_id some pass returned, with the record of the earliest
\* pass that returned it.
C20_FirstPassWins ==
    inv_pc = "returned" =>
        /\ \A i, j \in DOMAIN all_invoices :
              i # j => all_invoices[i].invoice_id # all_invoices[j].invoice_id
        /\ { all_invoices[i].invoice_id : i \in DOMAIN all_invoices }
              = { Concat(passes)[i].invoice_id : i \in DOMAIN Concat(passes) }
        /\ \A i \in DOMAIN all_invoices :
              all_invoices[i] = FirstWithId(all_invoices[i].invoice_id)

\* Two passes returned the same invoice_id with different records.
C20_Witness ==
    /\ inv_pc = "returned"
    /\ Len(passes) = 2
    /\ \E i \in DOMAIN passes[1].invoices, j \in DOMAIN passes[2].invoices :
          /\ passes[1].invoices[i].invoice_id = passes[2].invoices[j].invoice_id
          /\ passes[1].invoices[i] # passes[2].invoices[j]
          /\ \E k \in DOMAIN all_invoices : all_invoices[k] = passes[1].invoices[i]
    /\ Len(all_invoices) = 2

\* C21: validation rejects a record that lacks invoice_id, date, amount or
\* service, a record whose date is not in YYYY-MM-DD form and a record whose
\* amount is negative or not numeric; it accepts every other record, filling
\* absent optional fields with "N/A" (paid_status with "Paid"); a rejected
\* record is left out and the rest of the list is still validated: what the
\* pass returns is the list of the acceptable records, cleaned, in order.
InYmdForm(text) == text \in {"2024-01-15", "2024-02-01"}

Acceptable(invoice) ==
    /\ invoice.invoice_id # NoVal /\ invoice.date # NoVal
    /\ invoice.amount.kind # "missing" /\ invoice.service # NoVal
    /\ InYmdForm(invoice.date)
    /\ invoice.amount.kind = "num" /\ invoice.amount.value >= 0

Defaulted(invoice) ==
    [invoice EXCEPT
        !.description = IF @ = NoVal THEN "N/A" ELSE @,
        !.period = IF @ = NoVal THEN "N/A" ELSE @,
        !.email_subject = IF @ = NoVal THEN "N/A" ELSE @,
        !.paid_status = IF @ = NoVal THEN "Paid" ELSE @,
        !.service = IF @ = "a, b" THEN "a - b" ELSE @]

C21_ValidationRejects ==
    parsed_invoices.called
        => LET kept == SelectSeq(parsed_invoices.list, Acceptable)
           IN  validated_invoices = [i \in DOMAIN kept |-> Defaulted(kept[i])]

\* C22: a keyword pass that fails does not abort fetch_invoices: every
\* keyword gets its pass, the invoices merged from the passes before the
\* failed one are kept and the failed pass adds no record, so the merged
\* list is at every moment the first occurrences of the ids the passes so
\* far returned, and only an empty keyword list makes the call raise.
RECURSIVE FirstOccurrences(_, _)
FirstOccurrences(list, ids) ==
    IF list = <<>> THEN <<>>
    ELSE IF Head(list).invoice_id \in ids
         THEN FirstOccurrences(Tail(list), ids)
         ELSE <<Head(list)>>
                  \o FirstOccurrences(Tail(list), ids \cup {Head(list).invoice_id})

C23_LoopEndsWithoutCursor ==
    \A i \in DOMAIN sent :
        (/\ sent[i].response.status = 200
         /\ ~sent[i].response.has_more \/ sent[i].response.next_cursor = NoVal)
            => \A j \in DOMAIN sent : j > i => sent[j].call # sent[i].call

\* C24: a 429 answer is never used as a page; at the first and the second
\* attempt of a page request it is followed by a wait (of the Retry-After
\* header when there is one, otherwise of retry_delay * 2^attempt) and by
\* the same request again; at the third attempt the call raises.
C24_RateLimitRetried ==
    \A i \in DOMAIN sent :
        sent[i].response.status = 429 =>
            /\ ~sent[i].used
            /\ sent[i].attempt < max_retries
            /\ IF sent[i].attempt < max_retries - 1
               THEN /\ sent[i].wait # Absent
                    /\ sent[i].response.retry_after = "2" => sent[i].wait = 2
                    /\ sent[i].response.retry_after = NoVal
                          => sent[i].wait = retry_delay * 2^(sent[i].attempt)
                    /\ i = Len(sent) => cl_pc = "single"
                    /\ i < Len(sent) =>
                          /\ sent[i + 1].call = sent[i].call
                          /\ sent[i + 1].cursor = sent[i].cursor
                          /\ sent[i + 1].attempt = sent[i].attempt + 1
               ELSE /\ i = Len(sent)
                    /\ cl_pc = "raised"
                    /\ usage_out.kind = "HTTPError"

\* C25: a 5xx answer is treated like a 429: at the first and the second
\* attempt of a page request it is followed by a wait and by the same
\* request again, and the call raises only at the third attempt.
C25_ServerErrorRetried ==
    \A i \in DOMAIN sent :
        sent[i].response.status \in 500..599 =>
            /\ ~sent[i].used
            /\ IF sent[i].attempt < max_retries - 1
               THEN /\ sent[i].wait = retry_delay * 2^(sent[i].attempt)
                    /\ i = Len(sent) => cl_pc = "single"
                    /\ i < Len(sent) =>
                          /\ sent[i + 1].call = sent[i].call
                          /\ sent[i + 1].cursor = sent[i].cursor
                          /\ sent[i + 1].attempt = sent[i].attempt + 1
               ELSE /\ i = Len(sent)
                    /\ cl_pc = "raised"
                    /\ usage_out.kind = "HTTPError"

\* C26: a query with no endpoint, with more than 50 endpoints or with a date
\* range whose end precedes its start ends in a ValueError raised before
\* the first request, and no request is sent for it afterwards; no other
\* query is refused.
InvertedRange(a) ==
    /\ a.preset = NoVal
    /\ a.start_date # Absent
    /\ (IF a.end_date # Absent THEN a.end_date ELSE Now) < a.start_date

InvalidInput(a) == a.n = 0 \/ a.n > 50 \/ InvertedRange(a)

Refused ==
    /\ cl_pc = "raised"
    /\ usage_out.kind = "ValueError"
    /\ usage_out.by \in {"main", "parse_date_range", "get_usage"}

C26_InvalidInputRejected ==
    cl_pc # "idle" =>
        /\ InvalidInput(usage_args) <=> Refused
        /\ InvalidInput(usage_args) => sent = <<>>

\* A list of 51 endpoints with a valid date range was refused by get_usage.
C26_Witness ==
    /\ cl_pc = "raised"
    /\ usage_args.n = MaxEndpoints + 1
    /\ usage_out = Raised("ValueError", "get_usage")
    /\ sent = <<>>

\* C27: the response get_usage returns holds the data of all pages: every
\* time_series bucket and every summary item of every page fetched is in
\* its top-level time_series / summary.
Fetched(key) ==
    { PageData(sent[i].response, i)[key][1] :
        i \in { j \in DOMAIN sent : sent[j].used /\ sent[j].response.filled } }

Elements(list) == { list[i] : i \in DOMAIN list }

C27_AllPagesCombined ==
    cl_pc = "returned" =>
        /\ Fetched("time_series") \subseteq Elements(usage_out.result.time_series)
        /\ Fetched("summary") \subseteq Elements(usage_out.result.summary)

\* C28: an invoice whose lookup failed (status other than 200, or an
\* exception) is counted as skipped and no page is created for it.
C28_FailedLookupSkipped ==
    si_last.query \in {"non200", "exception"} =>
        /\ si_stats = Bump(si_last.stats0, "skipped")
        /\ inv_db = si_last.before

\* C30: an invoice whose invoice_id the lookup found is counted as skipped
\* and writes nothing, with update_existing set or not; N distinct invoices
\* saved twice to an empty database, every remote call succeeding, give
\* created = N and then created = 0, skipped = N; and while every remote
\* call succeeds no two pages hold the same Invoice Number.
DistinctInvoices(list) ==
    /\ \A i \in DOMAIN list : list[i].invoice_id # NoVal /\ InYmdForm(list[i].date)
    /\ \A i, j \in DOMAIN list : i # j => list[i].invoice_id # list[j].invoice_id

SavedTwice ==
    /\ si_pc = "idle"
    /\ si_out.kind = "stats"
    /\ si_run.again
    /\ si_run.firstClean
    /\ si_run.clean
    /\ DistinctInvoices(inv_list)

Total(s) == s.created + s.updated + s.skipped

C29_OneCounterPerRecord ==
    /\ (pc = "idle" /\ caller = "api" /\ out.kind = "stats") =>
          /\ Total(out.stats) = Len(records)
          /\ out.stats = stats
    /\ pc = "sud" => Total(stats) = idx - 1
    /\ last.branch # "none" =>
          \/ out.kind = "raised"
          \/ \E counter \in {"created", "updated", "skipped"} :
                stats = Bump(last.stats0, counter)
    /\ (last.branch # "none" /\ (last.rec.date = NoVal \/ last.rec.model = NoVal)) =>
          /\ last.query = "none"
          /\ last.write = "none"
          /\ store = last.before
          /\ stats = Bump(last.stats0, "skipped")

\* A batch of an incomplete record and a complete one has been saved.
C29_Witness ==
    /\ pc = "idle"
    /\ out.kind = "stats"
    /\ Len(records) = MaxBatch
    /\ records[1].date = NoVal
    /\ records[2].date # NoVal /\ records[2].model # NoVal
    /\ out.stats = [created |-> 1, updated |-> 0, skipped |-> 1]

====
